---- MODULE Spec2Model ----
(***************************************************************************)
(* Model of the media-pipeline orchestration layer: the dedup scan, the    *)
(* batch allocator, the sync coordinator, the sort resolver and the        *)
(* workflow manager, over the relational store and the file system.        *)
(***************************************************************************)
EXTENDS Integers, Sequences, FiniteSets, TLC

\* ------------------------------------------------------------------------
\* Bounds of the model
\* ------------------------------------------------------------------------
\* the file paths of the model, and how many of them receive a file in the
\* specifications of the whole pipeline
NFiles == 3
NArrive == 2
NContents == 2
MaxBatches == 2
MaxClock == 3
\* candidate lists given to _select_within_limit: length, sizes, limits
SelMaxLen == 3
SelMaxSize == 3
SelMaxLimit == 2
\* pipeline runs and dedup scans that may be started
MaxRuns == 2
MaxScans == 2
\* files in the source tree when the pipeline runs are triggered
RunFiles == 1

\* ------------------------------------------------------------------------
\* Configuration values
\* ------------------------------------------------------------------------
\* BatchService._max_size_bytes, in model units
MaxSizeBytes == 3
\* SortService._exif_fallback (default True)
ExifFallback == TRUE
\* BatchService._allow_parallel (default False)
AllowParallel == FALSE

FileIds == 1..NFiles
ArriveIds == 1..NArrive
Contents == 1..NContents

\* File statuses (modules/dedup.py, modules/batch.py)
FILE_STATUS_NEW == "NEW"
FILE_STATUS_UNIQUE == "UNIQUE"
FILE_STATUS_DUPLICATE == "DUPLICATE"
FILE_STATUS_ERROR == "ERROR"
FILE_STATUS_BATCHED == "BATCHED"
FILE_STATUS_SYNCED == "SYNCED"
FILE_STATUS_SORTED == "SORTED"
HASHED_STATUSES == {FILE_STATUS_UNIQUE, FILE_STATUS_DUPLICATE}
\* no row in the files table
NoRow == "NONE"

\* Batch statuses (modules/batch.py)
BATCH_STATUS_PENDING == "PENDING"
BATCH_STATUS_SYNCING == "SYNCING"
BATCH_STATUS_SYNCED == "SYNCED"
BATCH_STATUS_SORTING == "SORTING"
BATCH_STATUS_SORTED == "SORTED"
BATCH_STATUS_ERROR == "ERROR"

\* ------------------------------------------------------------------------
\* The files of the source tree.  File f lives at <source>/<f>/<Stem(f)>, so
\* path order in the source tree is the order of the ids; two files may have
\* the same base name in different directories.
\* ------------------------------------------------------------------------
Stem(f) == IF f <= 3 THEN 1 ELSE 2
\* st_size of the file
Size(f) == IF f = 2 THEN 2 ELSE 1
\* embedded capture date (0: no metadata), as extract_capture_datetime reads it
Meta(f) == IF f = 2 THEN 0 ELSE IF f = 3 THEN 2 ELSE 1
\* date of st_mtime
Mtime(f) == 1

VARIABLES
    st,      \* the store (files and batches tables), the file system, the clock
    sel,     \* an input of _select_within_limit and its result
    mgr,     \* the WorkflowManager: run handle, the run tasks, the debug state
    dd,      \* the DedupService: scan handle, the scan tasks, the running flag
    db,      \* the batches table of a database file that DatabaseManager opens
    cb       \* the create_batch calls in progress, each with its locals

vars == <<st, sel, mgr, dd, db, cb>>

\* a database file whose batches table has the id column and no row
NoDb == [has_id |-> TRUE, rows |-> {}]
\* no create_batch call in progress
NoCalls == <<>>

\* ------------------------------------------------------------------------
\* Paths.  A path is a tuple compared lexicographically, the roots ordered as
\* the default directories are: photos_raw < photos_sorted < syncthing/upload.
\* ------------------------------------------------------------------------
SourceRank == 1
SortedRank == 2
BatchRank == 3

PathKey(s, f) ==
    LET r == s.frec[f] IN
    CASE r.at = "source" -> <<SourceRank, f, 0, 0, f>>
      [] r.at = "sorted" -> <<SortedRank, r.date, Stem(f), r.k, f>>
      [] r.at = "batch"  -> <<BatchRank, s.batches[r.batch_id].name, f, 0, f>>
      [] OTHER           -> <<0, 0, 0, 0, f>>

RECURSIVE TupleLess(_, _, _)
TupleLess(a, b, i) ==
    IF i > Len(a) THEN FALSE
    ELSE IF a[i] < b[i] THEN TRUE
    ELSE IF a[i] > b[i] THEN FALSE
    ELSE TupleLess(a, b, i + 1)

PathLess(s, f, g) == TupleLess(PathKey(s, f), PathKey(s, g), 1)

\* ORDER BY path LIMIT 1
MinPath(s, S) == CHOOSE f \in S : \A g \in S \ {f} : PathLess(s, f, g)

\* ORDER BY path, as a sequence
RECURSIVE OrderByPath(_, _)
OrderByPath(s, S) ==
    IF S = {} THEN <<>>
    ELSE LET f == MinPath(s, S) IN <<f>> \o OrderByPath(s, S \ {f})

\* ------------------------------------------------------------------------
\* Initial state: empty tables, no file in the source tree yet.
\* ------------------------------------------------------------------------
NoFile == [at |-> "none", exists |-> FALSE, content |-> 0, status |-> NoRow,
           sha |-> 0, batch_id |-> 0, exif |-> 0, date |-> 0, k |-> 0]

InitStore(foreign) ==
    [frec |-> [f \in FileIds |-> NoFile],
     batches |-> <<>>,
     dirs |-> {},
     foreign |-> foreign,
     clock |-> 0,
     last_error |-> FALSE]

\* ------------------------------------------------------------------------
\* DedupService
\* ------------------------------------------------------------------------
\* _discover_files: the regular files under the source root, sorted by path
discover_files(s) ==
    OrderByPath(s, {f \in FileIds : s.frec[f].at = "source" /\ s.frec[f].exists})

\* One iteration of the hashing loop of _process_files for file f; hashOk is
\* whether compute_file_hash succeeds.
process_one(s, f, hashOk) ==
    LET r == s.frec[f] IN
    IF r.status \in HASHED_STATUSES THEN s
    ELSE IF ~r.exists THEN s
    ELSE IF ~hashOk THEN [s EXCEPT !.frec[f].status = FILE_STATUS_ERROR]
    ELSE
        LET digest == r.content
            same == {g \in FileIds : g # f /\ s.frec[g].status # NoRow
                                      /\ s.frec[g].sha = digest}
        IN  IF same # {}
            THEN LET d == MinPath(s, same)
                     s1 == IF s.frec[d].status # FILE_STATUS_UNIQUE
                           THEN [s EXCEPT !.frec[d].status = FILE_STATUS_UNIQUE]
                           ELSE s
                 IN [s1 EXCEPT !.frec[f].status = FILE_STATUS_DUPLICATE,
                               !.frec[f].sha = digest]
            ELSE [s EXCEPT !.frec[f].status = FILE_STATUS_UNIQUE,
                           !.frec[f].sha = digest]

\* _process_files with a hashing loop that the first failed hash ends
RECURSIVE process_files_AbortOnError(_, _, _)
process_files_AbortOnError(s, files, bad) ==
    IF files = <<>> THEN s
    ELSE IF Head(files) \in bad /\ s.frec[Head(files)].status \notin HASHED_STATUSES
    THEN process_one(s, Head(files), FALSE)
    ELSE process_files_AbortOnError(process_one(s, Head(files), TRUE), Tail(files), bad)

\* _process_files: the loop over the discovered files; bad is the set of
\* files whose hashing fails in this scan.
RECURSIVE process_files(_, _, _)
process_files(s, files, bad) ==
    IF files = <<>> THEN s
    ELSE process_files(process_one(s, Head(files), Head(files) \notin bad),
                       Tail(files), bad)

\* ------------------------------------------------------------------------
\* BatchService
\* ------------------------------------------------------------------------
NonTerminal == {BATCH_STATUS_PENDING, BATCH_STATUS_SYNCING, BATCH_STATUS_SYNCED,
                BATCH_STATUS_SORTING, BATCH_STATUS_ERROR}

BatchIds(s) == 1..Len(s.batches)

\* _active_batch_guard: the oldest batch in a non-terminal status, 0 if none
active_batch_guard(s) ==
    LET act == {b \in BatchIds(s) : s.batches[b].status \in NonTerminal} IN
    IF act = {} THEN 0
    ELSE CHOOSE b \in act :
            \A c \in act : s.batches[b].created_at <= s.batches[c].created_at

\* _fetch_candidates: UNIQUE rows without a batch, ordered by path.  A row is
\* [id, size (as stored; -1 is NULL), actual (st_size; -1: file missing)].
CandidateRow(s, f) ==
    [id |-> f, size |-> Size(f),
     actual |-> IF s.frec[f].exists THEN Size(f) ELSE -1]

fetch_candidates(s) ==
    LET ids == OrderByPath(s, {f \in FileIds :
                    /\ s.frec[f].status = FILE_STATUS_UNIQUE
                    /\ s.frec[f].batch_id = 0})
    IN [i \in 1..Len(ids) |-> CandidateRow(s, ids[i])]

\* _normalize_candidate: a row with its size, or <<>> when the row is dropped
normalize_candidate(row) ==
    IF row.size <= 0
    THEN IF row.actual < 0 THEN <<>>
         ELSE <<[row EXCEPT !.size = row.actual]>>
    ELSE <<row>>

\* the loop of _select_within_limit without the skip of a file that is
\* larger than the whole limit
RECURSIVE select_loop_NoSkip(_, _, _, _, _)
select_loop_NoSkip(cands, selected, running_size, limit_bytes, limit_files) ==
    IF cands = <<>> THEN selected
    ELSE
      LET n == normalize_candidate(Head(cands)) IN
      IF n = <<>>
      THEN select_loop_NoSkip(Tail(cands), selected, running_size, limit_bytes, limit_files)
      ELSE IF limit_files # 0 /\ Len(selected) >= limit_files THEN selected
      ELSE
        LET size_int == n[1].size IN
        IF limit_bytes # 0 /\ running_size + size_int > limit_bytes /\ selected # <<>>
        THEN selected
        ELSE
          LET sel2 == Append(selected, n[1]) IN
          IF limit_files # 0 /\ Len(sel2) >= limit_files THEN sel2
          ELSE select_loop_NoSkip(Tail(cands), sel2, running_size + size_int,
                                  limit_bytes, limit_files)

\* the loop of _select_within_limit
RECURSIVE select_loop(_, _, _, _, _)
select_loop(cands, selected, running_size, limit_bytes, limit_files) ==
    IF cands = <<>> THEN selected
    ELSE
      LET n == normalize_candidate(Head(cands)) IN
      IF n = <<>>
      THEN select_loop(Tail(cands), selected, running_size, limit_bytes, limit_files)
      ELSE IF limit_files # 0 /\ Len(selected) >= limit_files THEN selected
      ELSE
        LET size_int == n[1].size IN
        IF limit_bytes # 0 /\ running_size + size_int > limit_bytes /\ selected # <<>>
        THEN selected
        ELSE IF limit_bytes # 0 /\ running_size + size_int > limit_bytes
                /\ size_int > limit_bytes
        THEN select_loop(Tail(cands), selected, running_size, limit_bytes, limit_files)
        ELSE
          LET sel2 == Append(selected, n[1]) IN
          IF limit_files # 0 /\ Len(sel2) >= limit_files THEN sel2
          ELSE select_loop(Tail(cands), sel2, running_size + size_int,
                           limit_bytes, limit_files)

\* _select_within_limit that takes the file limit in mode "files" only
select_within_limit_FilesOnly(cands, mode, max_size_bytes, max_files) ==
    select_loop(cands, <<>>, 0,
                IF mode = "size" THEN max_size_bytes ELSE 0,
                IF mode = "files" THEN max_files ELSE 0)

\* _select_within_limit
select_within_limit(cands, mode, max_size_bytes, max_files) ==
    select_loop(cands, <<>>, 0,
                IF mode = "size" THEN max_size_bytes ELSE 0,
                IF mode \in {"files", "count"} THEN max_files ELSE 0)

\* _generate_batch_name: the first index that names neither a row nor a
\* directory
RECURSIVE name_from(_, _)
name_from(s, index) ==
    IF (\E b \in BatchIds(s) : s.batches[b].name = index) \/ index \in s.dirs
    THEN name_from(s, index + 1)
    ELSE index

generate_batch_name(s) == name_from(s, 1)

\* the move loop with an _update_files that leaves the batch reference out
RECURSIVE move_selected_NoBatchRef(_, _, _, _)
move_selected_NoBatchRef(s, rows, batch_id, moved) ==
    IF rows = <<>> THEN [s |-> s, moved |-> moved]
    ELSE LET f == Head(rows).id IN
         IF ~s.frec[f].exists
         THEN move_selected_NoBatchRef(s, Tail(rows), batch_id, moved)
         ELSE move_selected_NoBatchRef(
                [s EXCEPT !.frec[f].at = "batch",
                          !.frec[f].status = FILE_STATUS_BATCHED],
                Tail(rows), batch_id, Append(moved, Head(rows)))

\* the move loop and _update_files of create_batch for the selected rows
RECURSIVE move_selected(_, _, _, _)
move_selected(s, rows, batch_id, moved) ==
    IF rows = <<>> THEN [s |-> s, moved |-> moved]
    ELSE LET f == Head(rows).id IN
         IF ~s.frec[f].exists
         THEN move_selected(s, Tail(rows), batch_id, moved)
         ELSE move_selected(
                [s EXCEPT !.frec[f].at = "batch",
                          !.frec[f].status = FILE_STATUS_BATCHED,
                          !.frec[f].batch_id = batch_id],
                Tail(rows), batch_id, Append(moved, Head(rows)))

RECURSIVE SumSize(_)
SumSize(rows) == IF rows = <<>> THEN 0 ELSE Head(rows).size + SumSize(Tail(rows))

\* create_batch: the new store and the BatchCreationResult
create_batch_with(s, mode, max_size_bytes, max_files) ==
    LET guard == IF AllowParallel THEN 0 ELSE active_batch_guard(s) IN
    IF guard # 0
    THEN [s |-> s, created |-> FALSE, batch_id |-> 0, blocking_batch |-> guard]
    ELSE
      LET selected == select_within_limit(fetch_candidates(s), mode,
                                          max_size_bytes, max_files) IN
      IF selected = <<>>
      THEN [s |-> s, created |-> FALSE, batch_id |-> 0, blocking_batch |-> 0]
      ELSE
        LET name == generate_batch_name(s)
            rowid == Len(s.batches) + 1
            mv == move_selected(s, selected, rowid, <<>>)
            now == s.clock + 1
        IN  IF mv.moved = <<>>
            THEN [s |-> s, created |-> FALSE, batch_id |-> 0, blocking_batch |-> 0]
            ELSE [s |-> [mv.s EXCEPT
                          !.dirs = @ \cup {name},
                          !.clock = now,
                          !.batches = Append(@,
                              [name |-> name, status |-> BATCH_STATUS_PENDING,
                               created_at |-> now, synced_at |-> 0, sorted_at |-> 0,
                               file_count |-> Len(mv.moved),
                               size_bytes |-> SumSize(mv.moved)])],
                  created |-> TRUE, batch_id |-> rowid, blocking_batch |-> 0]

\* create_batch as the service is configured: selection by size
create_batch(s) == create_batch_with(s, "size", MaxSizeBytes, 0)

\* ------------------------------------------------------------------------
\* SyncService
\* ------------------------------------------------------------------------
\* answers of the daemon to folder_completion: -1 stands for SyncthingAPIError
DaemonError == -1
Completions == {DaemonError, 45, 100}

DirExists(s, b) == s.batches[b].name \in s.dirs

\* SyncService.start; rescanOk is whether trigger_rescan succeeds
sync_start(s, b, rescanOk) ==
    LET status == s.batches[b].status IN
    IF status = BATCH_STATUS_SYNCED THEN [s |-> s, started |-> FALSE]
    ELSE IF status = BATCH_STATUS_SYNCING THEN [s |-> s, started |-> FALSE]
    ELSE IF ~DirExists(s, b) THEN [s |-> s, started |-> FALSE]
    ELSE
      LET s1 == [s EXCEPT !.batches[b].status = BATCH_STATUS_SYNCING,
                          !.batches[b].synced_at = 0]
      IN IF rescanOk
         THEN [s |-> [s1 EXCEPT !.last_error = FALSE], started |-> TRUE]
         ELSE [s |-> s1, started |-> FALSE]

\* _mark_batch_synced without the promotion of the files of the batch
mark_batch_synced_NoFiles(s, b) ==
    LET timestamp == s.clock + 1 IN
    [s EXCEPT !.clock = timestamp,
              !.batches[b].status = BATCH_STATUS_SYNCED,
              !.batches[b].synced_at = timestamp]

\* _mark_batch_synced
mark_batch_synced(s, b) ==
    LET timestamp == s.clock + 1 IN
    [s EXCEPT !.clock = timestamp,
              !.batches[b].status = BATCH_STATUS_SYNCED,
              !.batches[b].synced_at = timestamp,
              !.frec = [f \in FileIds |->
                  IF /\ s.frec[f].batch_id = b
                     /\ s.frec[f].status \in {FILE_STATUS_BATCHED, FILE_STATUS_SYNCED}
                  THEN [s.frec[f] EXCEPT !.status = FILE_STATUS_SYNCED]
                  ELSE s.frec[f]]]

\* SyncService.status with the SyncthingAPIError of folder_completion taken
\* for a complete folder
sync_status_ErrorAsComplete(s, b, c, fsOk) ==
    LET status == s.batches[b].status IN
    IF status = BATCH_STATUS_SYNCED
    THEN [s |-> s, status |-> status, progress |-> 100, detail |-> FALSE]
    ELSE IF ~DirExists(s, b)
    THEN [s |-> s, status |-> status, progress |-> 0, detail |-> FALSE]
    ELSE
      LET progress == IF c = DaemonError THEN 100 ELSE c
          s2 == IF fsOk THEN s ELSE [s EXCEPT !.last_error = TRUE]
      IN IF progress >= 100
         THEN [s |-> mark_batch_synced(s2, b), status |-> BATCH_STATUS_SYNCED,
               progress |-> 100, detail |-> FALSE]
         ELSE [s |-> s2, status |-> status, progress |-> progress, detail |-> FALSE]

\* SyncService.status; c is the daemon's answer to folder_completion and
\* fsOk whether its folder_status call succeeds.  The result carries the
\* reported status and progress, and detail: whether it carries an error text.
sync_status(s, b, c, fsOk) ==
    LET status == s.batches[b].status IN
    IF status = BATCH_STATUS_SYNCED
    THEN [s |-> s, status |-> status, progress |-> 100, detail |-> FALSE]
    ELSE IF ~DirExists(s, b)
    THEN [s |-> s, status |-> status, progress |-> 0, detail |-> FALSE]
    ELSE
      LET progress == IF c = DaemonError THEN 0 ELSE c
          s1 == [s EXCEPT !.last_error = (c = DaemonError)]
          s2 == IF fsOk THEN s1 ELSE [s1 EXCEPT !.last_error = TRUE]
      IN IF progress >= 100
         THEN [s |-> mark_batch_synced(s2, b), status |-> BATCH_STATUS_SYNCED,
               progress |-> 100, detail |-> c = DaemonError]
         ELSE [s |-> s2, status |-> status, progress |-> progress,
               detail |-> c = DaemonError]

\* ORDER BY datetime(created_at), as a sequence of batch ids
RECURSIVE OrderByCreated(_, _)
OrderByCreated(s, B) ==
    IF B = {} THEN <<>>
    ELSE LET b == CHOOSE x \in B :
                    \A y \in B : s.batches[x].created_at <= s.batches[y].created_at
         IN <<b>> \o OrderByCreated(s, B \ {b})

RECURSIVE refresh_loop(_, _, _, _)
refresh_loop(s, rows, c, fsOk) ==
    IF rows = <<>> THEN s
    ELSE refresh_loop(sync_status(s, Head(rows), c[Head(rows)], fsOk).s,
                      Tail(rows), c, fsOk)

\* a sweep that selects the batches whatever their status
Syncing_AnyStatus(s) == BatchIds(s)

\* SELECT id, name FROM batches WHERE status = 'SYNCING'
Syncing(s) == {b \in BatchIds(s) : s.batches[b].status = BATCH_STATUS_SYNCING}

\* refresh_syncing_batches: polls every batch that is SYNCING; c[b] is the
\* daemon's answer to the poll made for batch b
refresh_syncing_batches(s, c, fsOk) ==
    refresh_loop(s, OrderByCreated(s, Syncing(s)), c, fsOk)

\* ------------------------------------------------------------------------
\* SortService
\* ------------------------------------------------------------------------
\* a name of the sorted archive is taken by a file of the store or by a file
\* that was in the archive before
Occupied(s, date, stem, k) ==
    \/ [date |-> date, stem |-> stem, k |-> k] \in s.foreign
    \/ \E g \in FileIds : /\ s.frec[g].at = "sorted" /\ s.frec[g].exists
                          /\ s.frec[g].date = date /\ Stem(g) = stem
                          /\ s.frec[g].k = k

\* _capture_datetime: 0 when no date can be resolved
capture_datetime(s, f) ==
    IF s.frec[f].exif # 0 THEN s.frec[f].exif
    ELSE IF Meta(f) # 0 THEN Meta(f)
    ELSE IF ~ExifFallback THEN 0
    ELSE Mtime(f)

\* _resolve_collision: the first suffix index whose name is free
RECURSIVE collision_from(_, _, _, _)
collision_from(s, date, stem, index) ==
    IF Occupied(s, date, stem, index)
    THEN collision_from(s, date, stem, index + 1)
    ELSE index

\* _resolve_collision that appends the first suffix without probing
resolve_collision_NoProbe(s, date, stem) == 1

resolve_collision(s, date, stem) == collision_from(s, date, stem, 1)

\* shutil.move into the archive: whatever was at the destination is replaced
move_to_archive(s, f, date, k) ==
    [s EXCEPT
       !.foreign = @ \ {[date |-> date, stem |-> Stem(f), k |-> k]},
       !.frec = [g \in FileIds |->
          IF g = f
          THEN [s.frec[f] EXCEPT !.at = "sorted", !.date = date, !.k = k,
                                 !.status = FILE_STATUS_SORTED,
                                 !.exif = IF @ = 0 THEN date ELSE @]
          ELSE IF /\ s.frec[g].at = "sorted" /\ s.frec[g].exists
                  /\ s.frec[g].date = date /\ Stem(g) = Stem(f) /\ s.frec[g].k = k
          THEN [s.frec[g] EXCEPT !.exists = FALSE]
          ELSE s.frec[g]]]

\* one iteration of the loop of SortService.start
sort_one(s, f) ==
    LET r == s.frec[f] IN
    IF r.status \notin {FILE_STATUS_BATCHED, FILE_STATUS_SYNCED, FILE_STATUS_SORTED}
    THEN s
    ELSE IF ~r.exists THEN s
    ELSE
      LET capture == capture_datetime(s, f) IN
      IF capture = 0 THEN s
      ELSE
        LET name_k == IF r.at = "sorted" THEN r.k ELSE 0
            same_file == r.at = "sorted" /\ r.date = capture
            k == IF Occupied(s, capture, Stem(f), name_k) /\ ~same_file
                 THEN resolve_collision(s, capture, Stem(f))
                 ELSE name_k
        IN move_to_archive(s, f, capture, k)

RECURSIVE sort_loop(_, _)
sort_loop(s, files) ==
    IF files = <<>> THEN s ELSE sort_loop(sort_one(s, Head(files)), Tail(files))

\* SortService.start; files is the rows of the batch in the order the query
\* returns them
sort_start(s, b, files) ==
    IF s.batches[b].status = BATCH_STATUS_SORTED
    THEN [s |-> s, started |-> FALSE]
    ELSE
      LET s1 == [s EXCEPT !.batches[b].status = BATCH_STATUS_SORTING,
                          !.batches[b].sorted_at = 0]
          s2 == sort_loop(s1, files)
          sorted_at == s2.clock + 1
      IN [s |-> [s2 EXCEPT !.clock = sorted_at,
                           !.batches[b].status = BATCH_STATUS_SORTED,
                           !.batches[b].sorted_at = sorted_at],
          started |-> TRUE]

\* the rows SELECT ... WHERE batch_id = ? may return, in any order
BatchFiles(s, b) == {f \in FileIds : s.frec[f].status # NoRow /\ s.frec[f].batch_id = b}

Orders(S) == {q \in [1..Cardinality(S) -> S] : \A x \in S : \E i \in DOMAIN q : q[i] = x}

\* ------------------------------------------------------------------------
\* DedupService: the scan task behind start()
\* ------------------------------------------------------------------------
\* the empty task handle (None)
NoTask == 0

InitDedup == [task |-> NoTask, scans |-> <<>>, running |-> FALSE, last_start |-> "none"]

\* DedupService.start: refuse while the handle holds a task that is not done,
\* otherwise create the scan task; the new service state and the returned flag
dedup_start_NoGuard(d) ==
    [d |-> [d EXCEPT !.scans = Append(@, "created"), !.task = Len(d.scans) + 1],
     started |-> TRUE]

dedup_start(d) ==
    IF d.task # NoTask /\ d.scans[d.task] # "done"
    THEN [d |-> d, started |-> FALSE]
    ELSE [d |-> [d EXCEPT !.scans = Append(@, "created"), !.task = Len(d.scans) + 1],
          started |-> TRUE]

\* ------------------------------------------------------------------------
\* WorkflowManager and the stages of WorkflowOrchestrator.run_pipeline
\* ------------------------------------------------------------------------
\* trace.syncthing_samples: the polls of one sync stage
SyncthingSamples == 2

\* DebugState.note: nothing, "Manual continue requested" or "Step '<name>'
\* auto-continued after timeout"
NoNote == [kind |-> "none", step |-> "none"]

ManualNote == [kind |-> "manual", step |-> "none"]

TimeoutNote(step_name) == [kind |-> "timeout", step |-> step_name]

NoDebug == [enabled |-> FALSE, waiting |-> FALSE, current_step |-> "none",
            event |-> TRUE, note |-> NoNote]

\* the manager after construction; debug_enabled and step_timeout are the
\* workflow.debug settings of the configuration
InitManager(debug_enabled, step_timeout) ==
    [current_task |-> NoTask, runs |-> <<>>, last_trigger |-> "none",
     config |-> [enabled |-> debug_enabled, timeout |-> step_timeout],
     debug |-> NoDebug]

NewRun == [pc |-> "created", paused |-> FALSE, scan |-> NoTask, batch_id |-> 0,
           attempts |-> 0, steps |-> <<>>]

\* _prepare_debug with the settings derived from the configuration
prepare_debug(m) == [m EXCEPT !.debug = [NoDebug EXCEPT !.enabled = m.config.enabled]]

\* WorkflowManager.trigger without the test of the run handle
trigger_NoGuard(m) ==
    [m |-> [prepare_debug(m) EXCEPT !.runs = Append(@, NewRun),
                                    !.current_task = Len(m.runs) + 1],
     started |-> TRUE]

\* WorkflowManager.trigger: the new manager and the returned flag
trigger(m) ==
    IF m.current_task # NoTask /\ m.runs[m.current_task].pc # "done"
    THEN [m |-> m, started |-> FALSE]
    ELSE [m |-> [prepare_debug(m) EXCEPT !.runs = Append(@, NewRun),
                                         !.current_task = Len(m.runs) + 1],
          started |-> TRUE]

\* _append_step of run t: record the result and, in debug mode, pause the
\* run until the event is set (after_step, _await_debug_confirmation)
\* _append_step with an after_step that returns without waiting
append_step_NoPause(m, t, name, status) ==
    [m EXCEPT !.runs[t].steps = Append(@, [name |-> name, status |-> status])]

\* _append_step with a wait that does not clear the event first
append_step_Latched(m, t, name, status) ==
    LET m1 == [m EXCEPT !.runs[t].steps = Append(@, [name |-> name, status |-> status])]
    IN IF m1.debug.enabled
       THEN [m1 EXCEPT !.debug.waiting = TRUE, !.debug.current_step = name,
                       !.runs[t].paused = TRUE]
       ELSE m1

append_step(m, t, name, status) ==
    LET m1 == [m EXCEPT !.runs[t].steps = Append(@, [name |-> name, status |-> status])]
    IN IF m1.debug.enabled
       THEN [m1 EXCEPT !.debug.waiting = TRUE, !.debug.current_step = name,
                       !.debug.event = FALSE, !.runs[t].paused = TRUE]
       ELSE m1

\* a polling loop that does not count its passes
monitor_poll_NoCount(s, b, attempts, c, fsOk) ==
    LET res == sync_status(s, b, c, fsOk) IN
    [s |-> res.s, status |-> res.status, attempts |-> attempts,
     done |-> res.status = BATCH_STATUS_SYNCED]

\* one pass of the polling loop of _monitor_sync_progress with `attempts`
\* passes left; done tells that the loop has ended
monitor_poll(s, b, attempts, c, fsOk) ==
    LET res == sync_status(s, b, c, fsOk) IN
    IF res.status = BATCH_STATUS_SYNCED
    THEN [s |-> res.s, status |-> res.status, attempts |-> attempts, done |-> TRUE]
    ELSE [s |-> res.s, status |-> res.status, attempts |-> attempts - 1,
          done |-> attempts - 1 <= 0]

\* run_sync after the polling loop, the sort stage following whatever status
\* the sync stage ended with
sync_outcome_AlwaysSort(m, t, poll) ==
    IF ~poll.done
    THEN [m EXCEPT !.runs[t].pc = "poll", !.runs[t].attempts = poll.attempts]
    ELSE LET synced == poll.status = BATCH_STATUS_SYNCED IN
         append_step([m EXCEPT !.runs[t].pc = "sort", !.runs[t].attempts = 0],
                     t, "sync", IF synced THEN "completed" ELSE "warning")

\* run_sync after a pass of the polling loop: wait for the next pass, or
\* record the sync step and choose between sorting and deferring the sort
sync_outcome(m, t, poll) ==
    IF ~poll.done
    THEN [m EXCEPT !.runs[t].pc = "poll", !.runs[t].attempts = poll.attempts]
    ELSE LET synced == poll.status = BATCH_STATUS_SYNCED IN
         append_step([m EXCEPT !.runs[t].pc = IF synced THEN "sort" ELSE "skip_sort",
                               !.runs[t].attempts = 0],
                     t, "sync", IF synced THEN "completed" ELSE "warning")

\* ------------------------------------------------------------------------
\* The operations on the store, executed one after another
\* ------------------------------------------------------------------------
\* files that were in the sorted archive before the pipeline ran
ForeignNames == {[date |-> 1, stem |-> 1, k |-> 0]}

NoSel == [cands |-> <<>>, mode |-> "size", limit |-> 0, out |-> <<>>, done |-> FALSE]

Init ==
    /\ st = InitStore(ForeignNames)
    /\ sel = NoSel
    /\ mgr = InitManager(FALSE, FALSE)
    /\ dd = InitDedup
    /\ db = NoDb
    /\ cb = NoCalls

\* a file appears in the watched source tree
Arrive(f, c) ==
    /\ st.frec[f].at = "none"
    /\ st' = [st EXCEPT !.frec[f].at = "source", !.frec[f].exists = TRUE,
                        !.frec[f].content = c]
    /\ UNCHANGED <<sel, mgr, dd, db, cb>>

\* a whole dedup scan (DedupService._process_files)
DedupScan(bad) ==
    /\ st' = process_files(st, discover_files(st), bad)
    /\ UNCHANGED <<sel, mgr, dd, db, cb>>

\* BatchService.create_batch
CreateBatch ==
    LET res == create_batch(st) IN
    /\ res.created => Len(st.batches) < MaxBatches /\ st.clock < MaxClock
    /\ st' = res.s
    /\ UNCHANGED <<sel, mgr, dd, db, cb>>

\* SyncService.start
SyncStart(b, rescanOk) ==
    LET res == sync_start(st, b, rescanOk) IN
    /\ st' = res.s
    /\ UNCHANGED <<sel, mgr, dd, db, cb>>

\* SyncService.status
SyncStatus(b, c, fsOk) ==
    LET res == sync_status(st, b, c, fsOk) IN
    /\ res.s.clock <= MaxClock
    /\ st' = res.s
    /\ UNCHANGED <<sel, mgr, dd, db, cb>>

\* SyncService.refresh_syncing_batches
Refresh(c, fsOk) ==
    LET s2 == refresh_syncing_batches(st, c, fsOk) IN
    /\ s2.clock <= MaxClock
    /\ st' = s2
    /\ UNCHANGED <<sel, mgr, dd, db, cb>>

\* SortService.start
SortStart(b, files) ==
    LET res == sort_start(st, b, files) IN
    /\ res.s.clock <= MaxClock
    /\ st' = res.s
    /\ UNCHANGED <<sel, mgr, dd, db, cb>>

\* the operator removes a batch directory by hand
RemoveBatchDir(b) ==
    /\ DirExists(st, b)
    /\ st' = [st EXCEPT !.dirs = @ \ {st.batches[b].name},
                !.frec = [f \in FileIds |->
                    IF st.frec[f].at = "batch" /\ st.frec[f].batch_id = b
                    THEN [st.frec[f] EXCEPT !.exists = FALSE]
                    ELSE st.frec[f]]]
    /\ UNCHANGED <<sel, mgr, dd, db, cb>>

Next ==
    \/ \E f \in ArriveIds, c \in Contents : Arrive(f, c)
    \/ \E bad \in {{}} \cup {{f} : f \in ArriveIds} : DedupScan(bad)
    \/ CreateBatch
    \/ \E b \in BatchIds(st), ok \in BOOLEAN : SyncStart(b, ok)
    \/ \E b \in BatchIds(st), c \in Completions, ok \in BOOLEAN : SyncStatus(b, c, ok)
    \/ \E c \in [Syncing(st) -> Completions], ok \in BOOLEAN : Refresh(c, ok)
    \/ \E b \in BatchIds(st) : \E files \in Orders(BatchFiles(st, b)) : SortStart(b, files)
    \/ \E b \in BatchIds(st) : RemoveBatchDir(b)

Spec == Init /\ [][Next]_vars

TypeOK ==
    /\ st.clock \in 0..MaxClock
    /\ Len(st.batches) <= MaxBatches

\* ------------------------------------------------------------------------
\* Properties of the batch lifecycle
\* ------------------------------------------------------------------------
NonTerminalBatches(s) == {b \in BatchIds(s) : s.batches[b].status \in NonTerminal}

\* C1: with parallel batches disabled, at most one batch row is in a
\* non-terminal status (PENDING, SYNCING, SYNCED, SORTING, ERROR) after any
\* sequence of CreateBatch, sync Start, sync Status, refresh and sort Start.
C1_AtMostOneNonTerminal == Cardinality(NonTerminalBatches(st)) <= 1

\* position of a batch status in PENDING -> SYNCING -> SYNCED -> SORTING -> SORTED
StatusRank(status) ==
    CASE status = BATCH_STATUS_PENDING -> 1
      [] status = BATCH_STATUS_SYNCING -> 2
      [] status = BATCH_STATUS_SYNCED  -> 3
      [] status = BATCH_STATUS_SORTING -> 4
      [] status = BATCH_STATUS_SORTED  -> 5
      [] OTHER -> 0

\* C2: no operation moves a batch to a status earlier in the order
\* PENDING -> SYNCING -> SYNCED -> SORTING -> SORTED.
C2_StatusOnlyAdvances ==
    [][\A b \in BatchIds(st) :
          StatusRank(st'.batches[b].status) >= StatusRank(st.batches[b].status)]_vars

\* C3: a file's status becomes SORTED only if the file had been promoted to
\* SYNCED, which happens when its owning batch reaches SYNCED.
C3_SortOnlySynced ==
    [][\A f \in FileIds :
          (st'.frec[f].status = FILE_STATUS_SORTED
              /\ st.frec[f].status # FILE_STATUS_SORTED)
          => st.frec[f].status = FILE_STATUS_SYNCED]_vars

\* the file records that carry fingerprint c
Group(s, c) == {f \in FileIds : s.frec[f].status # NoRow /\ s.frec[f].sha = c}

\* C4: among the file records that share a fingerprint (none of them taken
\* into a batch yet), exactly one is UNIQUE, every other one is DUPLICATE, and
\* the UNIQUE one is the first in path order.
C4_OneCanonicalFirstByPath ==
    \A c \in Contents :
        LET G == Group(st, c) IN
        (G # {} /\ \A f \in G : st.frec[f].batch_id = 0)
        => /\ st.frec[MinPath(st, G)].status = FILE_STATUS_UNIQUE
           /\ \A g \in G \ {MinPath(st, G)} : st.frec[g].status = FILE_STATUS_DUPLICATE

\* C5: sync Status on a batch that is already SYNCED or SORTED writes nothing
\* to the batches or files tables, whatever the daemon answers.
C5_StatusPureRead ==
    [][\A b \in BatchIds(st), c \in Completions, ok \in BOOLEAN :
          (st.batches[b].status \in {BATCH_STATUS_SYNCED, BATCH_STATUS_SORTED}
              /\ SyncStatus(b, c, ok))
          => (st'.batches = st.batches /\ st'.frec = st.frec)]_vars

InArchive(s, f) == s.frec[f].at = "sorted" /\ s.frec[f].exists

\* C7: sort never overwrites: every file of the archive keeps its name, a file
\* that enters the archive gets a name that was free, and when that name has
\* suffix k every name with a smaller suffix (and the plain name) is taken;
\* no file moved into the archive is replaced by a later move.
C7_SortNeverOverwrites ==
    [][/\ \A e \in st.foreign : e \in st'.foreign
       /\ \A g \in FileIds : InArchive(st, g) =>
             /\ InArchive(st', g)
             /\ st'.frec[g].date = st.frec[g].date
             /\ st'.frec[g].k = st.frec[g].k
       /\ \A f \in FileIds : (~InArchive(st, f) /\ InArchive(st', f)) =>
             /\ ~Occupied(st, st'.frec[f].date, Stem(f), st'.frec[f].k)
             /\ \A j \in 0..(st'.frec[f].k - 1) :
                   Occupied(st', st'.frec[f].date, Stem(f), j)
       /\ \A f \in FileIds : (st.frec[f].exists /\ st'.frec[f].at = "sorted") =>
             st'.frec[f].exists
       /\ \A f, g \in FileIds : (f # g /\ InArchive(st', f) /\ InArchive(st', g)) =>
             <<st'.frec[f].date, Stem(f), st'.frec[f].k>>
                # <<st'.frec[g].date, Stem(g), st'.frec[g].k>>]_vars

\* two files were filed under suffixes 1 and 2 next to the file that was there
C7_Witness ==
    /\ [date |-> 1, stem |-> 1, k |-> 0] \in st.foreign
    /\ \E f, g \in FileIds :
          /\ InArchive(st, f) /\ st.frec[f].k = 1 /\ st.frec[f].status = FILE_STATUS_SORTED
          /\ InArchive(st, g) /\ st.frec[g].k = 2 /\ st.frec[g].status = FILE_STATUS_SORTED

\* C8: a Status poll of a SYNCING batch leaves batch and files unchanged while
\* the daemon reports less than 100 (or fails); a poll that gets a completion
\* of 100 or more from the daemon sets the batch SYNCED, stamps synced_at and
\* promotes every BATCHED file of the batch to SYNCED.
C8_PollSyncing ==
    [][\A b \in BatchIds(st), c \in Completions, ok \in BOOLEAN :
          (st.batches[b].status = BATCH_STATUS_SYNCING /\ SyncStatus(b, c, ok)) =>
             IF c >= 100 /\ DirExists(st, b)
             THEN /\ st'.batches[b].status = BATCH_STATUS_SYNCED
                  /\ st'.batches[b].synced_at > st.clock
                  /\ \A f \in FileIds :
                        IF st.frec[f].batch_id = b
                           /\ st.frec[f].status = FILE_STATUS_BATCHED
                        THEN st'.frec[f] = [st.frec[f] EXCEPT !.status = FILE_STATUS_SYNCED]
                        ELSE st'.frec[f] = st.frec[f]
             ELSE st'.batches = st.batches /\ st'.frec = st.frec]_vars

\* a poll has just marked a batch SYNCED and promoted its files
C8_Witness ==
    \E b \in BatchIds(st) :
        /\ st.batches[b].status = BATCH_STATUS_SYNCED
        /\ st.batches[b].synced_at = st.clock
        /\ \E f \in FileIds : st.frec[f].batch_id = b /\ st.frec[f].status = FILE_STATUS_SYNCED

\* ------------------------------------------------------------------------
\* _select_within_limit on arbitrary candidate lists
\* ------------------------------------------------------------------------
\* a candidate row: a stored size, or a stored size of 0 (re-measured; the
\* file may be missing, -1)
SelRows ==
    {[id |-> 0, size |-> n, actual |-> n] : n \in 1..SelMaxSize}
    \cup {[id |-> 0, size |-> 0, actual |-> a] : a \in -1..SelMaxSize}

SelLists ==
    UNION {[1..n -> SelRows] : n \in 0..SelMaxLen}

\* the rows numbered by their place in the list
Numbered(list) == [i \in 1..Len(list) |-> [list[i] EXCEPT !.id = i]]

InitSelect ==
    /\ st = InitStore(ForeignNames)
    /\ \E list \in SelLists, mode \in {"size", "files"}, limit \in 0..SelMaxLimit :
          sel = [cands |-> Numbered(list), mode |-> mode, limit |-> limit,
                 out |-> <<>>, done |-> FALSE]
    /\ mgr = InitManager(FALSE, FALSE)
    /\ dd = InitDedup
    /\ db = NoDb
    /\ cb = NoCalls

\* BatchService._select_within_limit applied to the candidates
Select ==
    /\ ~sel.done
    /\ sel' = [sel EXCEPT !.out = select_within_limit(sel.cands, sel.mode,
                                                       sel.limit, sel.limit),
                          !.done = TRUE]
    /\ UNCHANGED <<st, mgr, dd, db, cb>>

NextSelect == Select

SpecSelect == InitSelect /\ [][NextSelect]_vars

\* the size a candidate counts with, -1 when the row is dropped
CountedSize(row) == IF row.size > 0 THEN row.size ELSE row.actual

\* C6: in byte-budget mode the summed size of the selected files never
\* exceeds the budget, and no selected file is larger than the budget.
C6_WithinBudget ==
    (sel.done /\ sel.mode = "size" /\ sel.limit > 0) =>
        /\ SumSize(sel.out) <= sel.limit
        /\ \A i \in 1..Len(sel.out) : sel.out[i].size <= sel.limit

\* a selection of two files made from a list that starts with a file larger
\* than the whole budget
C6_Witness ==
    /\ sel.done /\ sel.mode = "size" /\ sel.limit > 0
    /\ Len(sel.out) = 2
    /\ Len(sel.cands) > 2
    /\ CountedSize(sel.cands[1]) > sel.limit
    /\ SumSize(sel.out) = sel.limit

\* ------------------------------------------------------------------------
\* Pipeline runs and dedup scans as tasks of the event loop
\* ------------------------------------------------------------------------
DebugConfigs == {<<FALSE, FALSE>>, <<TRUE, FALSE>>, <<TRUE, TRUE>>}

\* the first RunFiles files are in the source tree when the service starts;
\* the contents are numbered in the order of their first file
InitRun ==
    /\ \E c \in {d \in [FileIds -> Contents] :
                    \A f \in FileIds :
                       \/ f > RunFiles /\ d[f] = 1
                       \/ f <= RunFiles /\ \A x \in 1..(d[f] - 1) :
                                               \E g \in 1..(f - 1) : d[g] = x} :
          st = [InitStore(ForeignNames) EXCEPT !.frec =
                   [f \in FileIds |->
                       IF f <= RunFiles
                       THEN [NoFile EXCEPT !.at = "source", !.exists = TRUE,
                                           !.content = c[f]]
                       ELSE NoFile]]
    /\ sel = NoSel
    /\ \E cfg \in DebugConfigs : mgr = InitManager(cfg[1], cfg[2])
    /\ dd = InitDedup
    /\ db = NoDb
    /\ cb = NoCalls

RunIds == DOMAIN mgr.runs
ScanIds == DOMAIN dd.scans

\* run t is at stage pc and not paused
Ready(t, pc) == mgr.runs[t].pc = pc /\ ~mgr.runs[t].paused

\* POST /api/workflow/run: WorkflowManager.trigger
Trigger ==
    LET res == trigger(mgr) IN
    /\ res.started => Len(mgr.runs) < MaxRuns
    /\ mgr' = [res.m EXCEPT !.last_trigger = IF res.started THEN "started" ELSE "refused"]
    /\ UNCHANGED <<st, sel, dd, db, cb>>

\* POST /api/dedup/start: DedupService.start
DedupStart ==
    LET res == dedup_start(dd) IN
    /\ res.started => Len(dd.scans) < MaxScans
    /\ dd' = [res.d EXCEPT !.last_start = IF res.started THEN "started" ELSE "refused"]
    /\ UNCHANGED <<st, sel, mgr, db, cb>>

\* DedupService._run up to the hand-over to the worker thread
ScanBegin(k) ==
    /\ dd.scans[k] = "created"
    /\ dd' = [dd EXCEPT !.scans[k] = "running", !.running = TRUE]
    /\ UNCHANGED <<st, sel, mgr, db, cb>>

\* _process_files in the worker thread
ScanThread(k, bad) ==
    /\ dd.scans[k] = "running"
    /\ st' = process_files(st, discover_files(st), bad)
    /\ dd' = [dd EXCEPT !.scans[k] = "finishing"]
    /\ UNCHANGED <<sel, mgr, db, cb>>

\* DedupService._run, the finally block: the task clears the handle and ends
ScanFinish(k) ==
    /\ dd.scans[k] = "finishing"
    /\ dd' = [dd EXCEPT !.scans[k] = "done", !.running = FALSE, !.task = NoTask]
    /\ UNCHANGED <<st, sel, mgr, db, cb>>

\* run_dedup: start a scan and wait for it, or go on if one is running
RunDedup(t) ==
    LET res == dedup_start(dd) IN
    /\ Ready(t, "created")
    /\ res.started => Len(dd.scans) < MaxScans
    /\ dd' = [res.d EXCEPT !.last_start = dd.last_start]
    /\ mgr' = IF res.started
              THEN [mgr EXCEPT !.runs[t].pc = "dedup_wait", !.runs[t].scan = res.d.task]
              ELSE append_step([mgr EXCEPT !.runs[t].pc = "batch"], t, "dedup", "completed")
    /\ UNCHANGED <<st, sel, db, cb>>

\* wait_for_completion returns once the awaited scan task is done
RunDedupWait(t) ==
    /\ Ready(t, "dedup_wait")
    /\ dd.scans[mgr.runs[t].scan] = "done"
    /\ mgr' = append_step([mgr EXCEPT !.runs[t].pc = "batch", !.runs[t].scan = NoTask],
                          t, "dedup", "completed")
    /\ UNCHANGED <<st, sel, dd, db, cb>>

\* BatchCreationResult.to_dict: the keys of the step data run_pipeline reads
to_dict(res) ==
    [created |-> res.created, batch_id |-> res.batch_id,
     blocking_batch |-> res.blocking_batch]

\* data.get("blocking_status") and data.get("blocking_batch_id"): to_dict
\* writes no such keys, the lookups give None
blocking_status(data) == NoRow

blocking_batch_id(data) == NoTask

\* run_batch, with the sort of a SYNCED blocking batch and the retry
RunBatch(t) ==
    LET first == create_batch(st)
        data == to_dict(first)
        blocked == /\ ~first.created
                   /\ blocking_status(data) = BATCH_STATUS_SYNCED
                   /\ blocking_batch_id(data) # NoTask
        target == blocking_batch_id(data)
    IN
    /\ Ready(t, "batch")
    /\ \E files \in (IF blocked THEN Orders(BatchFiles(st, target)) ELSE {<<>>}) :
         LET sorted == IF blocked THEN sort_start(first.s, target, files).s ELSE first.s
             res == IF blocked THEN create_batch(sorted) ELSE first
             status == IF res.created THEN "completed" ELSE "skipped"
             m0 == [mgr EXCEPT !.runs[t].pc = IF res.created THEN "sync" ELSE "skip_sync",
                               !.runs[t].batch_id = res.batch_id]
             m1 == IF blocked
                   THEN append_step(append_step(m0, t, "batch", "skipped"),
                                    t, "sort", "completed")
                   ELSE m0
         IN /\ res.created => Len(st.batches) < MaxBatches /\ st.clock < MaxClock
            /\ res.s.clock <= MaxClock
            /\ st' = res.s
            /\ mgr' = append_step(m1, t, "batch", status)
    /\ UNCHANGED <<sel, dd, db, cb>>

\* run_sync: SyncService.start and, if the sync started, the first pass of
\* the polling loop
RunSync(t, rescanOk, c, fsOk) ==
    LET b == mgr.runs[t].batch_id
        before == st.batches[b].status
        start == sync_start(st, b, rescanOk)
        poll == monitor_poll(start.s, b, SyncthingSamples, c, fsOk)
    IN
    /\ Ready(t, "sync")
    /\ IF start.started
       THEN /\ poll.s.clock <= MaxClock
            /\ st' = poll.s
            /\ mgr' = sync_outcome(mgr, t, poll)
       ELSE /\ st' = start.s
            /\ mgr' = IF before = BATCH_STATUS_SYNCED
                      THEN append_step([mgr EXCEPT !.runs[t].pc = "sort"],
                                       t, "sync", "completed")
                      ELSE append_step([mgr EXCEPT !.runs[t].pc = "skip_sort"], t, "sync",
                                       IF before = BATCH_STATUS_SYNCING
                                       THEN "skipped" ELSE "error")
    /\ UNCHANGED <<sel, dd, db, cb>>

\* a later pass of the polling loop, after the poll interval
RunPoll(t, c, fsOk) ==
    LET poll == monitor_poll(st, mgr.runs[t].batch_id, mgr.runs[t].attempts, c, fsOk) IN
    /\ Ready(t, "poll")
    /\ poll.s.clock <= MaxClock
    /\ st' = poll.s
    /\ mgr' = sync_outcome(mgr, t, poll)
    /\ UNCHANGED <<sel, dd, db, cb>>

\* run_sort of the batch of the run, after the post-sync delay
RunSort(t, files) ==
    LET res == sort_start(st, mgr.runs[t].batch_id, files) IN
    /\ Ready(t, "sort")
    /\ res.s.clock <= MaxClock
    /\ st' = res.s
    /\ mgr' = append_step([mgr EXCEPT !.runs[t].pc = "cleanup"], t, "sort",
                          IF res.started THEN "completed" ELSE "skipped")
    /\ UNCHANGED <<sel, dd, db, cb>>

\* the skipped sync and sort steps run_pipeline records
RunSkip(t) ==
    /\ \/ /\ Ready(t, "skip_sync")
          /\ mgr' = append_step([mgr EXCEPT !.runs[t].pc = "skip_sort"], t, "sync", "skipped")
       \/ /\ Ready(t, "skip_sort")
          /\ mgr' = append_step([mgr EXCEPT !.runs[t].pc = "cleanup"], t, "sort", "skipped")
    /\ UNCHANGED <<st, sel, dd, db, cb>>

\* run_cleanup: a batch directory holds its manifest, none is purged
RunCleanup(t) ==
    /\ Ready(t, "cleanup")
    /\ mgr' = append_step([mgr EXCEPT !.runs[t].pc = "finish"], t, "cleanup", "completed")
    /\ UNCHANGED <<st, sel, dd, db, cb>>

\* WorkflowManager._run, the finally block: the task clears the run handle
\* and ends, its locals are gone
RunFinish(t) ==
    /\ Ready(t, "finish")
    /\ mgr' = [mgr EXCEPT !.runs[t] = [NewRun EXCEPT !.pc = "done"],
                          !.current_task = NoTask,
                          !.debug.waiting = FALSE, !.debug.current_step = "none",
                          !.debug.event = TRUE]
    /\ UNCHANGED <<st, sel, dd, db, cb>>

\* POST /api/workflow/debug/advance: advance_debug
AdvanceDebug ==
    /\ mgr' = [mgr EXCEPT !.debug.note = ManualNote, !.debug.event = TRUE]
    /\ UNCHANGED <<st, sel, dd, db, cb>>

\* the name of the stage whose result run t recorded last: the step_name
\* argument of _await_debug_confirmation
step_name(m, t) == m.runs[t].steps[Len(m.runs[t].steps)].name

\* a wait that ends at once whatever the event says
await_resumed_Always(m, t) == TRUE

\* _debug_event.wait() returns for run t: the event is set
await_resumed(m, t) == m.debug.event

\* a wait_for that never times out
await_timed_out_Never(m, t) == FALSE

\* asyncio.wait_for raises TimeoutError for run t: a positive step timeout
\* is configured and has elapsed
await_timed_out(m, t) == m.config.timeout

\* _await_debug_confirmation returns: the event is set
RunResume(t) ==
    /\ mgr.runs[t].paused
    /\ await_resumed(mgr, t)
    /\ mgr' = [mgr EXCEPT !.runs[t].paused = FALSE,
                          !.debug.note = NoNote,
                          !.debug.waiting = FALSE, !.debug.current_step = "none",
                          !.debug.event = TRUE]
    /\ UNCHANGED <<st, sel, dd, db, cb>>

\* _await_debug_confirmation gives up: the step timeout elapsed
RunTimeout(t) ==
    /\ mgr.runs[t].paused
    /\ await_timed_out(mgr, t)
    /\ mgr' = [mgr EXCEPT !.runs[t].paused = FALSE,
                          !.debug.note = TimeoutNote(step_name(mgr, t)),
                          !.debug.waiting = FALSE, !.debug.current_step = "none",
                          !.debug.event = TRUE]
    /\ UNCHANGED <<st, sel, dd, db, cb>>

\* the requests and the steps of the tasks; advance requests are sent while
\* a run in debug mode is in progress
NextRun ==
    \/ Trigger
    \/ DedupStart
    \/ \E k \in ScanIds : ScanBegin(k)
    \/ \E k \in ScanIds, bad \in {{}} \cup {{f} : f \in ArriveIds} : ScanThread(k, bad)
    \/ \E k \in ScanIds : ScanFinish(k)
    \/ \E t \in RunIds : RunDedup(t)
    \/ \E t \in RunIds : RunDedupWait(t)
    \/ \E t \in RunIds : RunBatch(t)
    \/ \E t \in RunIds, ok \in BOOLEAN, c \in Completions, fs \in BOOLEAN : RunSync(t, ok, c, fs)
    \/ \E t \in RunIds, c \in Completions, fs \in BOOLEAN : RunPoll(t, c, fs)
    \/ \E t \in RunIds :
         \E files \in Orders(BatchFiles(st, mgr.runs[t].batch_id)) : RunSort(t, files)
    \/ \E t \in RunIds : RunSkip(t)
    \/ \E t \in RunIds : RunCleanup(t)
    \/ \E t \in RunIds : RunFinish(t)
    \/ (mgr.debug.enabled /\ mgr.current_task # NoTask) /\ AdvanceDebug
    \/ \E t \in RunIds : RunResume(t)
    \/ \E t \in RunIds : RunTimeout(t)

SpecRun == InitRun /\ [][NextRun]_vars

\* the run tasks, and the scan tasks, that are not done
ActiveRuns(m) == {t \in DOMAIN m.runs : m.runs[t].pc # "done"}

ActiveScans(d) == {k \in DOMAIN d.scans : d.scans[k] # "done"}

\* C9: at most one pipeline run is active; a Trigger issued while a run is
\* active returns false and leaves the run tasks as they are; a Trigger issued
\* while no run is active (none yet, or the last one finished) returns true
\* and starts one run; and a run becomes active in no other step than a
\* Trigger that returned true (nothing is queued).
C9_OneActiveRun ==
    [][/\ Cardinality(ActiveRuns(mgr')) <= 1
       /\ (Trigger /\ ActiveRuns(mgr) # {}) =>
             (mgr'.last_trigger = "refused" /\ mgr'.runs = mgr.runs)
       /\ (Trigger /\ ActiveRuns(mgr) = {}) =>
             (mgr'.last_trigger = "started" /\ Cardinality(ActiveRuns(mgr')) = 1)
       /\ (ActiveRuns(mgr') \ ActiveRuns(mgr) # {}) =>
             (Trigger /\ mgr'.last_trigger = "started")]_vars

\* the first run has finished, a second run was started after it and is
\* active, and the Trigger issued since then was refused
C9_Witness ==
    /\ Len(mgr.runs) = 2
    /\ mgr.runs[1].pc = "done"
    /\ mgr.runs[2].pc \notin {"created", "done"}
    /\ mgr.current_task = 2
    /\ mgr.last_trigger = "refused"

\* C10: at most one dedup scan task is active; start() issued while a scan is
\* active returns false and creates no scan, whether the scan endpoint or a
\* pipeline run calls it; start() issued while no scan is active (none yet, or
\* the last one finished) returns true and creates one scan; and no scan
\* appears in any other step.
C10_OneActiveScan ==
    [][/\ Cardinality(ActiveScans(dd')) <= 1
       /\ (DedupStart /\ ActiveScans(dd) # {}) =>
             (dd'.last_start = "refused" /\ dd'.scans = dd.scans)
       /\ (DedupStart /\ ActiveScans(dd) = {}) =>
             (dd'.last_start = "started" /\ Cardinality(ActiveScans(dd')) = 1)
       /\ \A t \in RunIds :
             RunDedup(t) =>
                IF ActiveScans(dd) # {}
                THEN dd'.scans = dd.scans /\ mgr'.runs[t].pc = "batch"
                ELSE Cardinality(ActiveScans(dd')) = 1 /\ mgr'.runs[t].pc = "dedup_wait"
       /\ (ActiveScans(dd') \ ActiveScans(dd) # {}) =>
             (DedupStart \/ \E t \in RunIds : RunDedup(t))]_vars

\* with no pipeline run ever triggered: the first scan has finished, the
\* endpoint started a second scan that is executing in the worker thread, and
\* the start() issued since then was refused
C10_Witness ==
    /\ mgr.runs = <<>>
    /\ Len(dd.scans) = 2
    /\ dd.scans[1] = "done"
    /\ dd.scans[2] = "running"
    /\ dd.task = 2
    /\ dd.last_start = "refused"

\* ------------------------------------------------------------------------
\* Properties of the stages of a run
\* ------------------------------------------------------------------------
\* the status recorded for stage `name` in the steps of a run, "none" if the
\* stage has no step yet
RECURSIVE StepStatus(_, _)
StepStatus(steps, name) ==
    IF steps = <<>> THEN "none"
    ELSE IF steps[Len(steps)].name = name THEN steps[Len(steps)].status
    ELSE StepStatus(SubSeq(steps, 1, Len(steps) - 1), name)

\* the steps of run t show an executed stage `name`
Executed(r, name) == StepStatus(r.steps, name) \notin {"none", "skipped"}

\* C11: in every run, a sync step that is not "skipped" is recorded only
\* after this run created a batch (the new batch row is the one the run
\* holds), a sort step that is not "skipped" only after a "completed" sync
\* step, and a sync step is "completed" only when the stored status of the
\* batch is SYNCED at that moment; when the run created no batch, or the sync
\* stage did not end SYNCED, the stage is recorded as skipped in a step that
\* leaves the store as it is.
C11_StagesGated ==
    [][\A t \in RunIds :
         LET r == mgr.runs[t]
             q == mgr'.runs[t]
         IN /\ Executed(q, "sync") =>
                  /\ StepStatus(q.steps, "batch") = "completed"
                  /\ q.batch_id \in BatchIds(st')
            /\ (q.batch_id # r.batch_id /\ q.batch_id # NoTask) =>
                  /\ BatchIds(st') \ BatchIds(st) = {q.batch_id}
                  /\ st'.batches[q.batch_id].status = BATCH_STATUS_PENDING
            /\ Executed(q, "sort") => StepStatus(q.steps, "sync") = "completed"
            /\ (StepStatus(r.steps, "sync") = "none"
                   /\ StepStatus(q.steps, "sync") = "completed") =>
                  st'.batches[q.batch_id].status = BATCH_STATUS_SYNCED
            /\ (StepStatus(q.steps, "sync") # "none"
                   /\ StepStatus(q.steps, "batch") # "completed") =>
                  StepStatus(q.steps, "sync") = "skipped"
            /\ (StepStatus(q.steps, "sort") # "none"
                   /\ StepStatus(q.steps, "sync") # "completed") =>
                  StepStatus(q.steps, "sort") = "skipped"
            /\ (Len(q.steps) > Len(r.steps) /\ q.steps[Len(q.steps)].status = "skipped"
                   /\ q.steps[Len(q.steps)].name \in {"sync", "sort"}
                   /\ r.pc \in {"skip_sync", "skip_sort"}) =>
                  st' = st]_vars

\* a run that created batch 1, saw it SYNCED at the end of its sync stage
\* and has sorted it
C11_Witness ==
    \E t \in RunIds :
        /\ mgr.runs[t].batch_id = 1
        /\ StepStatus(mgr.runs[t].steps, "batch") = "completed"
        /\ StepStatus(mgr.runs[t].steps, "sync") = "completed"
        /\ StepStatus(mgr.runs[t].steps, "sort") = "completed"
        /\ st.batches[1].status = BATCH_STATUS_SORTED

\* ------------------------------------------------------------------------
\* Runs across a restart of the process
\* ------------------------------------------------------------------------
\* the process stops while a run is active and starts again: the tasks and
\* the state of the manager and of the dedup service are gone, the store and
\* the file system stay as they are
Restart ==
    /\ ActiveRuns(mgr) # {}
    /\ mgr' = InitManager(mgr.config.enabled, mgr.config.timeout)
    /\ dd' = InitDedup
    /\ UNCHANGED <<st, sel, db, cb>>

\* the service starts with debug mode off
InitRestart ==
    /\ InitRun
    /\ ~mgr.config.enabled

\* the answers of a daemon that ends up reporting the folder complete
Completing == {45, 100}

\* the steps of the tasks, the restart, files arriving in the source tree and
\* the refresh sweep of the overview requests; the daemon answers every
\* request, the first sample of a sync may be short of complete
NextRestart ==
    \/ Trigger
    \/ DedupStart
    \/ \E k \in ScanIds : ScanBegin(k)
    \/ \E k \in ScanIds, bad \in {{}} \cup {{f} : f \in ArriveIds} : ScanThread(k, bad)
    \/ \E k \in ScanIds : ScanFinish(k)
    \/ \E t \in RunIds : RunDedup(t)
    \/ \E t \in RunIds : RunDedupWait(t)
    \/ \E t \in RunIds : RunBatch(t)
    \/ \E t \in RunIds, c \in Completing : RunSync(t, TRUE, c, TRUE)
    \/ \E t \in RunIds : RunPoll(t, 100, TRUE)
    \/ \E t \in RunIds :
         \E files \in Orders(BatchFiles(st, mgr.runs[t].batch_id)) : RunSort(t, files)
    \/ \E t \in RunIds : RunSkip(t)
    \/ \E t \in RunIds : RunCleanup(t)
    \/ \E t \in RunIds : RunFinish(t)
    \/ Restart
    \/ \E f \in ArriveIds, c \in Contents : Arrive(f, c)
    \/ Refresh([b \in Syncing(st) |-> 100], TRUE)

SpecRestart == InitRestart /\ [][NextRestart]_vars

\* C12: when the allocation of a run is blocked by a batch whose status is
\* SYNCED (its directory present), the batch step of that run sorts the
\* blocking batch and retries, so that a batch is created in that run when
\* there are files waiting to be batched
C12_SortAndRetry ==
    [][\A t \in RunIds :
         LET g == active_batch_guard(st) IN
         (/\ RunBatch(t)
          /\ g # 0
          /\ st.batches[g].status = BATCH_STATUS_SYNCED
          /\ DirExists(st, g))
         => /\ st'.batches[g].status = BATCH_STATUS_SORTED
            /\ fetch_candidates(st) # <<>> => mgr'.runs[t].batch_id # 0]_vars

\* C13: when the runs triggered since the service came up have all finished
\* (MaxRuns of them, the daemon reporting completion), no batch whose
\* directory exists is left short of SORTED, in particular none that a
\* restart abandoned as PENDING, SYNCING or SYNCED, and no batch blocks the
\* allocation
C13_ResumeAfterRestart ==
    (Len(mgr.runs) = MaxRuns /\ ActiveRuns(mgr) = {})
    => /\ \A b \in BatchIds(st) :
            DirExists(st, b) => st.batches[b].status = BATCH_STATUS_SORTED
       /\ active_batch_guard(st) = 0

\* ------------------------------------------------------------------------
\* A sort whose file move fails
\* ------------------------------------------------------------------------
\* the loop of SortService.start reaches the mkdir and the move for file f
Movable(s, f) ==
    /\ s.frec[f].status \in {FILE_STATUS_BATCHED, FILE_STATUS_SYNCED, FILE_STATUS_SORTED}
    /\ s.frec[f].exists
    /\ capture_datetime(s, f) # 0

\* SortService.start when mkdir or shutil.move raises OSError at the n-th
\* row: the batch has been set to SORTING, the rows before the n-th are
\* sorted, the final update is not reached
sort_start_raise(s, b, files, n) ==
    sort_loop([s EXCEPT !.batches[b].status = BATCH_STATUS_SORTING,
                        !.batches[b].sorted_at = 0],
              SubSeq(files, 1, n - 1))

\* run_sort catches ValueError only: the OSError leaves run_pipeline, and
\* WorkflowManager._run logs it, clears the run handle and raises it again
RunSortRaise(t, files, n) ==
    LET b == mgr.runs[t].batch_id
        s2 == sort_start_raise(st, b, files, n)
    IN
    /\ Ready(t, "sort")
    /\ st.batches[b].status # BATCH_STATUS_SORTED
    /\ Movable(s2, files[n])
    /\ st' = s2
    /\ mgr' = [mgr EXCEPT !.runs[t] = [NewRun EXCEPT !.pc = "done"],
                          !.current_task = NoTask,
                          !.debug.waiting = FALSE, !.debug.current_step = "none",
                          !.debug.event = TRUE]
    /\ UNCHANGED <<sel, dd, db, cb>>

NextFail ==
    \/ NextRun
    \/ \E t \in RunIds :
         \E files \in Orders(BatchFiles(st, mgr.runs[t].batch_id)) :
           \E n \in DOMAIN files : RunSortRaise(t, files, n)

SpecFail == InitRun /\ [][NextFail]_vars

StepNames(steps) == [i \in DOMAIN steps |-> steps[i].name]

\* C14: a failing stage never aborts a run: a run ends only after its
\* cleanup step, with the steps dedup, batch, sync, sort, cleanup recorded
\* in this order
C14_NeverAborts ==
    [][\A t \in RunIds :
         (t \in DOMAIN mgr'.runs /\ mgr.runs[t].pc # "done" /\ mgr'.runs[t].pc = "done")
         => StepNames(mgr.runs[t].steps) = <<"dedup", "batch", "sync", "sort", "cleanup">>]_vars

\* C15: when the daemon query of Status(b) fails (b not yet SYNCED, its
\* directory present) the call returns progress 0 with the error text as
\* detail, the error is recorded as the last error, and the batch rows
\* (status, synced timestamp) and the file records are unchanged
C15_StatusSurvivesDaemonError ==
    [][\A b \in BatchIds(st), fsOk \in BOOLEAN :
         (/\ SyncStatus(b, DaemonError, fsOk)
          /\ st.batches[b].status # BATCH_STATUS_SYNCED
          /\ DirExists(st, b))
         => LET res == sync_status(st, b, DaemonError, fsOk) IN
            /\ res.progress = 0
            /\ res.detail
            /\ res.status = st.batches[b].status
            /\ st'.last_error
            /\ st'.batches = st.batches
            /\ st'.frec = st.frec]_vars

\* a PENDING batch whose Status call met the daemon error
C15_Witness ==
    /\ Len(st.batches) = 1
    /\ st.batches[1].status = BATCH_STATUS_PENDING
    /\ DirExists(st, 1)
    /\ st.last_error

\* C16: a CreateBatch refused by the exclusivity guard returns created =
\* false and identifies the blocking batch, the oldest non-terminal one, by
\* its name, by its numeric id and by its current status
C16_RefusalIdentifiesBlocker ==
    LET g == active_batch_guard(st)
        res == create_batch(st)
        data == to_dict(res)
    IN g # 0 => /\ ~data.created
                /\ data.blocking_batch = g
                /\ blocking_batch_id(data) = g
                /\ blocking_status(data) = st.batches[g].status

\* ------------------------------------------------------------------------
\* The counters a scan reports (DedupState)
\* ------------------------------------------------------------------------
\* the first loop of _process_files: the records already hashed
RECURSIVE count_hashed(_, _, _)
count_hashed(s, files, wanted) ==
    IF files = <<>> THEN 0
    ELSE (IF s.frec[Head(files)].status \in wanted THEN 1 ELSE 0)
         + count_hashed(s, Tail(files), wanted)

\* the hashing loop of _process_files with its counters: processed and
\* duplicates are the locals, c.processed_files and c.duplicate_files the
\* fields of the reported state.  A failed hash goes through
\* _increment_processed, which adds to the reported field only; a hashed
\* file writes the locals over the reported fields.
RECURSIVE count_loop(_, _, _, _, _, _)
count_loop(s, files, bad, processed, duplicates, c) ==
    IF files = <<>> THEN c
    ELSE
      LET f == Head(files)
          r == s.frec[f]
          s1 == process_one(s, f, f \notin bad)
      IN IF r.status \in HASHED_STATUSES \/ ~r.exists
         THEN count_loop(s1, Tail(files), bad, processed, duplicates, c)
         ELSE IF f \in bad
         THEN count_loop(s1, Tail(files), bad, processed, duplicates,
                         [c EXCEPT !.processed_files = @ + 1])
         ELSE
           LET dup == \E g \in FileIds : /\ g # f
                                         /\ s.frec[g].status # NoRow
                                         /\ s.frec[g].sha = r.content
               d2 == IF dup THEN duplicates + 1 ELSE duplicates
           IN count_loop(s1, Tail(files), bad, processed + 1, d2,
                         [c EXCEPT !.processed_files = processed + 1,
                                   !.duplicate_files = d2])

\* the state a scan of files reports when it has ended
scan_counts(s, files, bad) ==
    LET processed == count_hashed(s, files, HASHED_STATUSES)
        duplicates == count_hashed(s, files, {FILE_STATUS_DUPLICATE})
    IN count_loop(s, files, bad, processed, duplicates,
                  [total_files |-> Len(files), processed_files |-> processed,
                   duplicate_files |-> duplicates])

\* C17: a scan run again with no change to the file system (the same files
\* fail to hash) leaves every file record as the previous scan left it and
\* reports the same total, processed and duplicate counts
C17_RescanIdempotent ==
    \A bad \in {{}} \cup {{f} : f \in ArriveIds} :
        LET files == discover_files(st)
            s1 == process_files(st, files, bad)
            again == discover_files(s1)
            s2 == process_files(s1, again, bad)
        IN /\ s2.frec = s1.frec
           /\ scan_counts(s1, again, bad) = scan_counts(st, files, bad)

\* C18: in debug mode without auto-advance, when a stage's result is
\* recorded the run pauses (waiting, current step = the name of that stage);
\* while it is paused the run records nothing, stays at its stage and writes
\* nothing to the store; the pause ends only when the advance event is set
\* or the step timeout is configured
C18_DebugPause ==
    [][\A t \in RunIds :
         t \in DOMAIN mgr'.runs =>
         LET r == mgr.runs[t]
             q == mgr'.runs[t]
         IN /\ (mgr.config.enabled /\ Len(q.steps) > Len(r.steps))
               => /\ q.paused
                  /\ mgr'.debug.waiting
                  /\ mgr'.debug.current_step = q.steps[Len(q.steps)].name
            /\ r.paused
               => /\ q.steps = r.steps
                  /\ q.pc = r.pc
                  /\ st' # st => \E k \in ScanIds, bad \in SUBSET FileIds : ScanThread(k, bad)
            /\ (r.paused /\ ~q.paused) => (mgr.debug.event \/ mgr.config.timeout)]_vars

\* a run without step timeout paused after its sync stage: the pauses after
\* dedup and batch were released by advance signals
C18_Witness ==
    \E t \in RunIds :
        /\ mgr.runs[t].paused
        /\ ~mgr.config.timeout
        /\ mgr.debug.waiting
        /\ mgr.debug.current_step = "sync"
        /\ Len(mgr.runs[t].steps) = 3

\* C19: a hashing failure does not abort the scan: the file whose hashing
\* fails gets status ERROR, and every other discovered file, the later ones
\* included, is hashed and classified UNIQUE or DUPLICATE by the same scan
C19_ScanSurvivesHashError ==
    [][\A f \in FileIds :
         LET files == discover_files(st) IN
         (/\ \E i \in DOMAIN files : files[i] = f
          /\ st.frec[f].status \notin HASHED_STATUSES
          /\ DedupScan({f}))
         => /\ st'.frec[f].status = FILE_STATUS_ERROR
            /\ \A i \in DOMAIN files :
                 files[i] # f => /\ st'.frec[files[i]].status \in HASHED_STATUSES
                                 /\ st'.frec[files[i]].sha = st'.frec[files[i]].content]_vars

\* the first file in path order failed to hash and the second was classified
C19_Witness ==
    /\ discover_files(st) = <<1, 2>>
    /\ st.frec[1].status = FILE_STATUS_ERROR
    /\ st.frec[2].status = FILE_STATUS_UNIQUE
    /\ st.frec[2].sha = st.frec[2].content

RECURSIVE SizeOf(_)
SizeOf(S) == IF S = {} THEN 0 ELSE LET f == CHOOSE x \in S : TRUE IN Size(f) + SizeOf(S \ {f})

\* C20: a CreateBatch that creates a batch appends one row in PENDING status
\* whose file count and byte total are the number and the summed size of
\* the files moved; every moved file's record is BATCHED, located in the
\* batch and refers to the new row, and is otherwise as before; the files
\* not selected and the older batch rows are unchanged
C20_CreateBatchPostcondition ==
    [][(CreateBatch /\ Len(st'.batches) = Len(st.batches) + 1)
       => LET b == Len(st'.batches)
              row == st'.batches[b]
              selected == select_within_limit(fetch_candidates(st), "size", MaxSizeBytes, 0)
              moved == {f \in FileIds : /\ \E i \in DOMAIN selected : selected[i].id = f
                                        /\ st.frec[f].exists}
          IN /\ row.status = BATCH_STATUS_PENDING
             /\ moved # {}
             /\ row.file_count = Cardinality(moved)
             /\ row.size_bytes = SizeOf(moved)
             /\ SubSeq(st'.batches, 1, b - 1) = st.batches
             /\ \A f \in moved :
                  st'.frec[f] = [st.frec[f] EXCEPT !.at = "batch",
                                                   !.status = FILE_STATUS_BATCHED,
                                                   !.batch_id = b]
             /\ \A f \in FileIds \ moved : st'.frec[f] = st.frec[f]]_vars

\* a batch of two files has been created
C20_Witness ==
    /\ Len(st.batches) = 1
    /\ st.batches[1].status = BATCH_STATUS_PENDING
    /\ st.batches[1].file_count = 2
    /\ st.batches[1].size_bytes = Size(1) + Size(2)
    /\ \A f \in {1, 2} : st.frec[f].status = FILE_STATUS_BATCHED /\ st.frec[f].batch_id = 1

\* ------------------------------------------------------------------------
\* Batches selected by file count
\* ------------------------------------------------------------------------
\* largest max_files the service is configured with
MaxFilesLimit == 2

\* a file is deleted from the source tree; its record, if any, stays
Vanish(f) ==
    /\ st.frec[f].at = "source"
    /\ st.frec[f].exists
    /\ st' = [st EXCEPT !.frec[f].exists = FALSE]
    /\ UNCHANGED <<sel, mgr, dd, db, cb>>

\* BatchService.create_batch of a service built with selection_mode "count"
\* and max_files = n
CreateBatchCount(n) ==
    LET res == create_batch_with(st, "count", MaxSizeBytes, n) IN
    /\ res.created => Len(st.batches) < MaxBatches /\ st.clock < MaxClock
    /\ st' = res.s
    /\ UNCHANGED <<sel, mgr, dd, db, cb>>

NextCount ==
    \/ \E f \in ArriveIds, c \in Contents : Arrive(f, c)
    \/ \E bad \in {{}} \cup {{f} : f \in ArriveIds} : DedupScan(bad)
    \/ \E f \in ArriveIds : Vanish(f)
    \/ \E n \in 1..MaxFilesLimit : CreateBatchCount(n)
    \/ \E b \in BatchIds(st), ok \in BOOLEAN : SyncStart(b, ok)
    \/ \E b \in BatchIds(st), c \in Completions, ok \in BOOLEAN : SyncStatus(b, c, ok)
    \/ \E b \in BatchIds(st) : \E files \in Orders(BatchFiles(st, b)) : SortStart(b, files)

SpecCount == Init /\ [][NextCount]_vars

\* the ids of the first k rows
FirstIds(rows, k) == {rows[i].id : i \in 1..(IF k < Len(rows) THEN k ELSE Len(rows))}

\* the files a step has assigned to a batch
NewlyBatched == {f \in FileIds : /\ st.frec[f].status = FILE_STATUS_UNIQUE
                                 /\ st'.frec[f].status = FILE_STATUS_BATCHED}

MaxRowid == 3
MaxNames == 3

BatchNames == 1..MaxNames
LegacyStatuses == {BATCH_STATUS_PENDING, BATCH_STATUS_SORTED}

\* the rows of a batches table; in a table with the id column the id is the
\* rowid (INTEGER PRIMARY KEY)
TableRows == [rowid : 1..MaxRowid, name : BatchNames, status : LegacyStatuses]

\* a batches table made by a release without the id column: name is the
\* primary key, the rowids are whatever inserts and deletes have left
LegacyTables ==
    UNION {{{[rowid |-> i, name |-> name[i], status |-> status[i]] : i \in ids} :
               <<name, status>> \in
                   {x \in [ids -> BatchNames] \X [ids -> LegacyStatuses] :
                       \A i, k \in ids : x[1][i] = x[1][k] => i = k}}
           : ids \in SUBSET (1..MaxRowid)}

\* the position of row r among rows read in the order of column key
RowRank(rows, r, key) == Cardinality({q \in rows : q[key] <= r[key]})

\* INSERT INTO batches (...) SELECT ... FROM batches_old ORDER BY name: the
\* rows numbered in name order
ensure_batches_have_id_ByName(d) ==
    IF d.has_id THEN d
    ELSE [has_id |-> TRUE,
          rows |-> {[rowid |-> RowRank(d.rows, r, "name"), name |-> r.name,
                     status |-> r.status] : r \in d.rows}]

\* DatabaseManager._ensure_batches_have_id: a table that has the id column is
\* left alone; otherwise the rows are re-inserted in rowid order into a new
\* table whose AUTOINCREMENT id numbers them from 1
ensure_batches_have_id(d) ==
    IF d.has_id THEN d
    ELSE [has_id |-> TRUE,
          rows |-> {[rowid |-> RowRank(d.rows, r, "rowid"), name |-> r.name,
                     status |-> r.status] : r \in d.rows}]

\* DatabaseManager._initialize_schema: CREATE TABLE IF NOT EXISTS leaves an
\* existing batches table as it is, then the migrations run
initialize_schema(d) == ensure_batches_have_id(d)

InitOpen ==
    /\ st = InitStore(ForeignNames)
    /\ sel = NoSel
    /\ mgr = InitManager(FALSE, FALSE)
    /\ dd = InitDedup
    /\ cb = NoCalls
    /\ \E t \in LegacyTables : db = [has_id |-> FALSE, rows |-> t]

\* DatabaseManager(db_path)
Open ==
    /\ db' = initialize_schema(db)
    /\ UNCHANGED <<st, sel, mgr, dd, cb>>

NextOpen == Open

SpecOpen == InitOpen /\ [][NextOpen]_vars

\* C22: opening a database whose batches table lacks the id column leaves a
\* table with the id column holding exactly the original rows (same names and
\* statuses, as many rows), in their original rowid order, numbered 1..n; and
\* opening the result again changes nothing
C22_MigrationPreservesRows ==
    [][(Open /\ ~db.has_id) =>
         /\ db'.has_id
         /\ Cardinality(db'.rows) = Cardinality(db.rows)
         /\ {r.rowid : r \in db'.rows} = 1..Cardinality(db.rows)
         /\ {<<r.name, r.status>> : r \in db'.rows}
              = {<<r.name, r.status>> : r \in db.rows}
         /\ \A r, q \in db.rows : \A r2, q2 \in db'.rows :
              (r2.name = r.name /\ q2.name = q.name /\ r.rowid < q.rowid)
              => r2.rowid < q2.rowid
         /\ initialize_schema(db') = db']_vars

\* a migrated table of two rows whose id order is not their name order
C22_Witness ==
    /\ db.has_id
    /\ Cardinality(db.rows) = 2
    /\ \E r, q \in db.rows : r.rowid = 1 /\ q.rowid = 2 /\ r.name > q.name

\* files of equal content arriving at every path of the model, each scan
\* hashing every file
NextDup ==
    \/ \E f \in FileIds, c \in Contents : Arrive(f, c)
    \/ DedupScan({})
    \/ CreateBatch

SpecDup == Init /\ [][NextDup]_vars

\* the statuses of a file that has been assigned to a batch
ASSIGNED_STATUSES == {FILE_STATUS_BATCHED, FILE_STATUS_SYNCED, FILE_STATUS_SORTED}

\* C23: once a file record is BATCHED, SYNCED or SORTED, no dedup scan
\* changes its status; the promotion never resets it to UNIQUE
C23_StatusNeverBackward ==
    [][(\E bad \in SUBSET FileIds : DedupScan(bad))
         => \A f \in FileIds :
              st.frec[f].status \in ASSIGNED_STATUSES
              => st'.frec[f].status = st.frec[f].status]_vars

\* C24: no two file records with the same fingerprint are both assigned to
\* batches
C24_ContentBatchedOnce ==
    \A f, g \in FileIds :
        (/\ f # g
         /\ st.frec[f].status # NoRow /\ st.frec[g].status # NoRow
         /\ st.frec[f].batch_id # 0 /\ st.frec[g].batch_id # 0
         /\ st.frec[f].sha # 0)
        => st.frec[f].sha # st.frec[g].sha

\* ---------------------------------------------------------------------
\* create_batch statement by statement: calls that overlap (the API runs
\* each POST /create in a worker thread), and calls that stop half-way
\* ---------------------------------------------------------------------

NCalls == 2
CallIds == 1..NCalls

\* the locals of a call that has not started. In these specifications the
\* record of a file that a call has moved keeps its source path until
\* _update_files runs: exists is FALSE (nothing is at the recorded path) and
\* the file is in the directory named by the call that lists it in moved.
IdleCall == [pc |-> "guard", rest |-> <<>>, name |-> 0, moved |-> <<>>,
             rowid |-> 0, created |-> FALSE]

Finished == {"done", "raised", "killed"}

\* rmdir succeeds only on an empty directory
DirEmpty(i) ==
    \A j \in CallIds \ {i} : cb[j].name = cb[i].name => cb[j].moved = <<>>

\* if not self._allow_parallel: guard = self._active_batch_guard()
CbGuard(i) ==
    /\ cb[i].pc = "guard"
    /\ cb' = [cb EXCEPT ![i].pc =
                IF ~AllowParallel /\ active_batch_guard(st) # 0 THEN "done" ELSE "select"]
    /\ UNCHANGED <<st, sel, mgr, dd, db>>

\* candidates = self._fetch_candidates(); selected = self._select_within_limit(candidates)
CbSelect(i) ==
    /\ cb[i].pc = "select"
    /\ LET selected == select_within_limit(fetch_candidates(st), "size", MaxSizeBytes, 0) IN
       cb' = [cb EXCEPT ![i].rest = selected,
                        ![i].pc = IF selected = <<>> THEN "done" ELSE "name"]
    /\ UNCHANGED <<st, sel, mgr, dd, db>>

\* batch_name = self._generate_batch_name()
CbName(i) ==
    /\ cb[i].pc = "name"
    /\ cb' = [cb EXCEPT ![i].name = generate_batch_name(st), ![i].pc = "mkdir"]
    /\ UNCHANGED <<st, sel, mgr, dd, db>>

\* batch_path.mkdir(parents=True, exist_ok=True)
CbMkdir(i) ==
    /\ cb[i].pc = "mkdir"
    /\ st' = [st EXCEPT !.dirs = @ \cup {cb[i].name}]
    /\ cb' = [cb EXCEPT ![i].pc = "move"]
    /\ UNCHANGED <<sel, mgr, dd, db>>

\* one turn of the loop over selected: a row whose source file is gone is
\* skipped, any other file is moved into the batch directory
CbMove(i) ==
    /\ cb[i].pc = "move"
    /\ cb[i].rest # <<>>
    /\ LET row == Head(cb[i].rest)
           f == row.id
       IN IF st.frec[f].exists /\ st.frec[f].at = "source"
          THEN /\ st' = [st EXCEPT !.frec[f].exists = FALSE]
               /\ cb' = [cb EXCEPT ![i].rest = Tail(@), ![i].moved = Append(@, row)]
          ELSE /\ st' = st
               /\ cb' = [cb EXCEPT ![i].rest = Tail(@)]
    /\ UNCHANGED <<sel, mgr, dd, db>>

\* if not moved_records: rmdir and return; the directory stays when another
\* call has put files into it
CbNoneMoved(i) ==
    /\ cb[i].pc = "move"
    /\ cb[i].rest = <<>>
    /\ cb[i].moved = <<>>
    /\ st' = [st EXCEPT !.dirs = IF DirEmpty(i) THEN @ \ {cb[i].name} ELSE @]
    /\ cb' = [cb EXCEPT ![i].pc = "done"]
    /\ UNCHANGED <<sel, mgr, dd, db>>

\* the manifest is written and _insert_batch runs; the UNIQUE constraint on
\* batches.name makes the INSERT raise when a row has the name already
CbInsert(i) ==
    /\ cb[i].pc = "move"
    /\ cb[i].rest = <<>>
    /\ cb[i].moved # <<>>
    /\ IF \E b \in BatchIds(st) : st.batches[b].name = cb[i].name
       THEN /\ st' = st
            /\ cb' = [cb EXCEPT ![i].pc = "raised"]
       ELSE /\ Len(st.batches) < MaxBatches
            /\ st.clock < MaxClock
            /\ st' = [st EXCEPT
                        !.clock = @ + 1,
                        !.batches = Append(@,
                            [name |-> cb[i].name, status |-> BATCH_STATUS_PENDING,
                             created_at |-> st.clock + 1, synced_at |-> 0,
                             sorted_at |-> 0, file_count |-> Len(cb[i].moved),
                             size_bytes |-> SumSize(cb[i].moved)])]
            /\ cb' = [cb EXCEPT ![i].pc = "update", ![i].rowid = Len(st.batches) + 1]
    /\ UNCHANGED <<sel, mgr, dd, db>>

\* self._update_files(moved_records, batch_rowid) and the return
CbUpdate(i) ==
    /\ cb[i].pc = "update"
    /\ LET ids == {cb[i].moved[k].id : k \in 1..Len(cb[i].moved)} IN
       st' = [st EXCEPT !.frec = [f \in FileIds |->
                IF f \in ids /\ st.frec[f].at = "source"
                THEN [st.frec[f] EXCEPT !.at = "batch", !.exists = TRUE,
                                        !.status = FILE_STATUS_BATCHED,
                                        !.batch_id = cb[i].rowid]
                ELSE st.frec[f]]]
    /\ cb' = [cb EXCEPT ![i].pc = "done", ![i].created = TRUE]
    /\ UNCHANGED <<sel, mgr, dd, db>>

CbStep(i) ==
    \/ CbGuard(i)
    \/ CbSelect(i)
    \/ CbName(i)
    \/ CbMkdir(i)
    \/ CbMove(i)
    \/ CbNoneMoved(i)
    \/ CbInsert(i)
    \/ CbUpdate(i)

InitRace ==
    /\ st = InitStore(ForeignNames)
    /\ sel = NoSel
    /\ mgr = InitManager(FALSE, FALSE)
    /\ dd = InitDedup
    /\ db = NoDb
    /\ cb = [i \in CallIds |-> IdleCall]

NextRace ==
    \/ \E f \in ArriveIds, c \in Contents : Arrive(f, c)
    \/ DedupScan({})
    \/ \E i \in CallIds : CbStep(i)

SpecRace == InitRace /\ [][NextRace]_vars

\* the files that calls have moved and whose records no call will update
Stranded ==
    {f \in FileIds : \E i \in CallIds :
        /\ cb[i].pc \in Finished
        /\ \E k \in 1..Len(cb[i].moved) : cb[i].moved[k].id = f
        /\ ~(st.frec[f].at = "batch" /\ st.frec[f].batch_id \in BatchIds(st))}

\* C25: with parallel batches disabled, create_batch calls that overlap
\* never both create a batch: at most one batch row is non-terminal, and no
\* call leaves a file moved into a batch directory without a batch row and
\* a record that says so
C25_OverlapCreatesOne ==
    /\ Cardinality({b \in BatchIds(st) : st.batches[b].status \in NonTerminal}) <= 1
    /\ Stranded = {}

\* the process stops inside create_batch: the call takes no further step
CbKill(i) ==
    /\ cb[i].pc \notin Finished \cup {"guard"}
    /\ cb' = [cb EXCEPT ![i].pc = "killed"]
    /\ UNCHANGED <<st, sel, mgr, dd, db>>

\* calls one after the other, the first of which may be stopped at any
\* statement
NextCrash ==
    \/ \E f \in ArriveIds, c \in Contents : Arrive(f, c)
    \/ DedupScan({})
    \/ \E f \in ArriveIds : Vanish(f)
    \/ CbStep(1)
    \/ CbKill(1)
    \/ cb[1].pc \in Finished /\ CbStep(2)

SpecCrash == InitRace /\ [][NextCrash]_vars

\* C28: after a stop at any point inside create_batch, every file record
\* designates the place where its file is: a file that the stopped call has
\* moved into the batch directory has a record with its path in the batch
C28_CrashSafe ==
    (/\ \E i \in CallIds : cb[i].pc = "killed"
     /\ \A i \in CallIds : cb[i].pc \in Finished \cup {"guard"})
    => \A i \in CallIds : \A k \in 1..Len(cb[i].moved) :
          st.frec[cb[i].moved[k].id].at = "batch"

\* C26: a batch becomes SYNCED only from SYNCING; no step, and so no status
\* poll and no refresh sweep, marks a PENDING batch SYNCED whatever the
\* daemon reports
C26_SyncedOnlyFromSyncing ==
    [][\A b \in BatchIds(st) :
         (st'.batches[b].status = BATCH_STATUS_SYNCED
          /\ st.batches[b].status # BATCH_STATUS_SYNCED)
         => st.batches[b].status = BATCH_STATUS_SYNCING]_vars

\* C27: when the rescan request of Start fails, the batch is left
\* retryable: a later Start on it requests the rescan again
C27_FailedStartRetryable ==
    [][\A b \in BatchIds(st) :
         (/\ SyncStart(b, FALSE)
          /\ st.batches[b].status \notin {BATCH_STATUS_SYNCED, BATCH_STATUS_SYNCING}
          /\ DirExists(st, b))
         => sync_start(st', b, TRUE).started]_vars

\* C29: the batch stage of a run never begins while a dedup scan is
\* executing, whoever started the scan
C29_NoBatchDuringScan ==
    [][\A t \in RunIds :
         RunBatch(t) => \A k \in ScanIds : dd.scans[k] # "running"]_vars

\* ---------------------------------------------------------------------
\* Sorting a batch some of whose files are away for a while
\* ---------------------------------------------------------------------

\* a file of a batch directory is taken out of it by hand
Misplace(f) ==
    /\ st.frec[f].at = "batch"
    /\ st.frec[f].exists
    /\ st' = [st EXCEPT !.frec[f].exists = FALSE]
    /\ UNCHANGED <<sel, mgr, dd, db, cb>>

\* and put back where it was
Restore(f) ==
    /\ st.frec[f].at = "batch"
    /\ ~st.frec[f].exists
    /\ DirExists(st, st.frec[f].batch_id)
    /\ st' = [st EXCEPT !.frec[f].exists = TRUE]
    /\ UNCHANGED <<sel, mgr, dd, db, cb>>

NextSort ==
    \/ \E f \in ArriveIds, c \in Contents : Arrive(f, c)
    \/ DedupScan({})
    \/ CreateBatch
    \/ \E b \in BatchIds(st) : \E files \in Orders(BatchFiles(st, b)) : SortStart(b, files)
    \/ \E f \in ArriveIds : Misplace(f)
    \/ \E f \in ArriveIds : Restore(f)

SpecSort == Init /\ [][NextSort]_vars

\* C30: a file that a sort has skipped is left for a later attempt: whenever
\* a file of a batch waits to be sorted, is in the batch directory and has a
\* capture date, a sort Start on its batch sorts it
C30_SkippedSortedLater ==
    \A b \in BatchIds(st) : \A f \in BatchFiles(st, b) :
        (/\ st.frec[f].status \in {FILE_STATUS_BATCHED, FILE_STATUS_SYNCED}
         /\ st.frec[f].at = "batch"
         /\ st.frec[f].exists
         /\ capture_datetime(st, f) # 0)
        => \A files \in Orders(BatchFiles(st, b)) :
              sort_start(st, b, files).s.frec[f].status = FILE_STATUS_SORTED

\* C31: a sort Start on a batch that is not SORTED ends with the batch
\* SORTED and stamped with a sorted timestamp, however many files were
\* sorted or skipped; a sort Start on a SORTED batch changes nothing and
\* reports started = FALSE
C31_SortAlwaysStamps ==
    [][\A b \in BatchIds(st) :
         /\ (/\ st.batches[b].status # BATCH_STATUS_SORTED
             /\ st'.batches[b] # st.batches[b]
             /\ st'.batches[b].status \in {BATCH_STATUS_SORTING, BATCH_STATUS_SORTED})
            => /\ st'.batches[b].status = BATCH_STATUS_SORTED
               /\ st'.batches[b].sorted_at # 0
         /\ st.batches[b].status = BATCH_STATUS_SORTED
            => \A files \in Orders(BatchFiles(st, b)) :
                 sort_start(st, b, files) = [s |-> st, started |-> FALSE]]_vars

\* C32: the sync stage of a run terminates: every pass of its polling loop
\* either ends the stage or leaves fewer passes than before, the first pass
\* leaving fewer than the sample limit; a stage that ends without the batch
\* SYNCED records a warning and leaves the batch SYNCING
C32_SyncStageBounded ==
    [][\A t \in RunIds :
         LET r == mgr.runs[t]
             q == mgr'.runs[t]
             b == r.batch_id
         IN (r.pc \in {"sync", "poll"} /\ ~r.paused /\ q # r)
            => \/ /\ q.pc = "poll"
                  /\ q.attempts >= 1
                  /\ q.attempts < (IF r.pc = "sync" THEN SyncthingSamples ELSE r.attempts)
                  /\ st'.batches[b].status = BATCH_STATUS_SYNCING
               \/ /\ q.pc \in {"sort", "skip_sort"}
                  /\ Len(q.steps) = Len(r.steps) + 1
                  /\ q.steps[Len(q.steps)].name = "sync"
                  /\ LET status == q.steps[Len(q.steps)].status IN
                     /\ status = "completed"
                          <=> st'.batches[b].status = BATCH_STATUS_SYNCED
                     /\ r.pc = "poll" => status \in {"completed", "warning"}
                     /\ status = "warning"
                          => /\ st'.batches[b].status = BATCH_STATUS_SYNCING
                             /\ IF r.pc = "poll" THEN r.attempts = 1
                                ELSE SyncthingSamples = 1]_vars

\* a sync stage has used all its passes and ended with a warning, the batch
\* still SYNCING
C32_Witness ==
    \E t \in RunIds :
        /\ mgr.runs[t].pc = "skip_sort"
        /\ Len(mgr.runs[t].steps) >= 3
        /\ mgr.runs[t].steps[3].name = "sync"
        /\ mgr.runs[t].steps[3].status = "warning"
        /\ st.batches[mgr.runs[t].batch_id].status = BATCH_STATUS_SYNCING

\* no batch row is in ERROR
NoBatchError == \A b \in BatchIds(st) : st.batches[b].status # BATCH_STATUS_ERROR

\* C33: a batch can be moved to ERROR from any non-terminal status: whenever
\* a batch is PENDING, SYNCING, SYNCED or SORTING, some operation, with some
\* answer of the daemon (its failures included), leaves it in ERROR
C33_ErrorReachable ==
    \A b \in BatchIds(st) :
        st.batches[b].status \in NonTerminal \ {BATCH_STATUS_ERROR}
        => ENABLED (Next /\ st'.batches[b].status = BATCH_STATUS_ERROR)

\* ------------------------------------------------------------------------
\* The debug pause: step timeout and advance signal
\* ------------------------------------------------------------------------
\* the position of a stage in run_pipeline
Stage(pc) ==
    CASE pc = "created" -> 0
      [] pc = "dedup_wait" -> 1
      [] pc = "batch" -> 2
      [] pc \in {"sync", "skip_sync"} -> 3
      [] pc = "poll" -> 4
      [] pc \in {"sort", "skip_sort"} -> 5
      [] pc = "cleanup" -> 6
      [] pc = "finish" -> 7
      [] OTHER -> 8

\* C34: with a step timeout configured a paused run can always be released
\* by the timeout alone, and a pause that ends while no advance signal has
\* arrived was ended by the timeout and leaves the note "Step '<name>'
\* auto-continued after timeout" for the stage that paused; without a
\* timeout a pause ends only once the advance signal is set; and every step
\* of a run other than the release of a pause moves it to a later stage or
\* uses up one of the polls of the sync stage, so the run completes
C34_TimeoutEndsPause ==
    [][\A t \in RunIds :
         t \in DOMAIN mgr'.runs =>
         LET r == mgr.runs[t]
             q == mgr'.runs[t]
         IN /\ (r.paused /\ ~q.paused /\ ~mgr.debug.event)
                  => /\ mgr.config.timeout
                     /\ mgr'.debug.note = TimeoutNote(step_name(mgr, t))
                     /\ ~mgr'.debug.waiting
            /\ (r.paused /\ ~mgr.config.timeout /\ ~mgr.debug.event) => q.paused
            /\ r # q => \/ q = [r EXCEPT !.paused = FALSE]
                        \/ Stage(q.pc) > Stage(r.pc)
                        \/ r.pc = "poll" /\ q.pc = "poll" /\ q.attempts < r.attempts
            /\ (r.paused /\ mgr.config.timeout)
                  => ENABLED (/\ RunTimeout(t)
                              /\ ~mgr'.runs[t].paused
                              /\ mgr'.debug.note = TimeoutNote(step_name(mgr, t)))]_vars

\* a run that went through all its stages and whose last pause, after the
\* cleanup stage, was ended by the timeout
C34_Witness ==
    \E t \in RunIds :
        /\ mgr.runs[t].pc = "done"
        /\ mgr.config.timeout
        /\ mgr.debug.note = TimeoutNote("cleanup")
        /\ \E b \in BatchIds(st) : st.batches[b].status = BATCH_STATUS_SORTED

\* C35: the advance signal is not latched: whatever signals were sent
\* before, a run in debug mode that records a stage result pauses with the
\* event cleared; while the run stays paused the event is set only by an
\* advance request, which changes nothing but the event and the note; and a
\* pause ends only with the event set since the pause began or by the
\* configured timeout, after which the next recorded result pauses again
C35_AdvanceNotLatched ==
    [][\A t \in RunIds :
         t \in DOMAIN mgr'.runs =>
         LET r == mgr.runs[t]
             q == mgr'.runs[t]
         IN /\ (mgr.debug.enabled /\ Len(q.steps) > Len(r.steps))
                  => /\ q.paused
                     /\ ~mgr'.debug.event
                     /\ mgr'.debug.waiting
            /\ (r.paused /\ q.paused /\ ~mgr.debug.event /\ mgr'.debug.event)
                  => /\ mgr' = [mgr EXCEPT !.debug.note = ManualNote, !.debug.event = TRUE]
                     /\ st' = st
            /\ (r.paused /\ ~q.paused)
                  => /\ mgr.debug.event \/ mgr.config.timeout
                     /\ mgr.debug.event => mgr.debug.note = ManualNote
                     /\ q = [r EXCEPT !.paused = FALSE]]_vars

\* an advance was requested while the run was not paused, and the pause of
\* the next stage is in place all the same: no timeout is configured, the
\* event is clear and the note still reads "Manual continue requested"
C35_Witness ==
    \E t \in RunIds :
        /\ mgr.runs[t].paused
        /\ ~mgr.config.timeout
        /\ ~mgr.debug.event
        /\ mgr.debug.note = ManualNote
        /\ Len(mgr.runs[t].steps) >= 2

\* ------------------------------------------------------------------------
\* The progress a scan reports while it hashes
\* ------------------------------------------------------------------------
\* the state a scan of files reports after the first n files of the hashing
\* loop
scan_progress(s, files, bad, n) ==
    LET processed == count_hashed(s, files, HASHED_STATUSES)
        duplicates == count_hashed(s, files, {FILE_STATUS_DUPLICATE})
    IN count_loop(s, SubSeq(files, 1, n), bad, processed, duplicates,
                  [total_files |-> Len(files), processed_files |-> processed,
                   duplicate_files |-> duplicates])

\* C36: a scan of the files in the source tree, whichever of them fail to
\* hash, ends with processed_files equal to total_files, and the
\* processed_files it reports never decreases from one file to the next
C36_EveryFileCounted ==
    \A bad \in SUBSET FileIds :
        LET files == discover_files(st)
            final == scan_counts(st, files, bad)
        IN /\ final.total_files = Len(files)
           /\ final.processed_files = final.total_files
           /\ \A n \in 1..Len(files) :
                 scan_progress(st, files, bad, n - 1).processed_files
                    <= scan_progress(st, files, bad, n).processed_files

\* ------------------------------------------------------------------------
\* Batch names across stopped calls and cleanup runs
\* ------------------------------------------------------------------------
\* the batch directories that hold nothing: no row has the name (the
\* directory of a row holds its manifest) and no call has moved a file in
EmptyBatchDirs ==
    {n \in st.dirs :
        /\ \A b \in BatchIds(st) : st.batches[b].name # n
        /\ \A i \in CallIds : cb[i].name = n => cb[i].moved = <<>>}

\* CleanupService._purge_empty_batches: every empty directory under the
\* batch root is removed
PurgeEmptyBatches ==
    /\ st' = [st EXCEPT !.dirs = @ \ EmptyBatchDirs]
    /\ UNCHANGED <<sel, mgr, dd, db, cb>>

\* a create_batch call that may be stopped at any statement and whose files
\* may vanish, then cleanup runs, sorts and further create_batch calls of the
\* restarted service
NextName ==
    \/ \E f \in ArriveIds, c \in Contents : Arrive(f, c)
    \/ DedupScan({})
    \/ \E f \in ArriveIds : Vanish(f)
    \/ CbStep(1)
    \/ CbKill(1)
    \/ cb[1].pc \in Finished /\ PurgeEmptyBatches
    \/ cb[1].pc \in Finished /\ CreateBatch
    \/ cb[1].pc \in Finished
         /\ \E b \in BatchIds(st) : \E files \in Orders(BatchFiles(st, b)) : SortStart(b, files)

SpecName == InitRace /\ [][NextName]_vars

\* C37: batch rows are never removed or renamed, and every new batch row
\* gets a name that no row has, with an index greater than the index of
\* every row created before it
C37_NamesMonotonic ==
    [][/\ Len(st'.batches) >= Len(st.batches)
       /\ \A b \in BatchIds(st) : st'.batches[b].name = st.batches[b].name
       /\ \A n \in BatchIds(st') \ BatchIds(st) :
            \A b \in BatchIds(st) : st'.batches[n].name > st.batches[b].name]_vars

\* the part of C37 that the allocation keeps: no two rows share a name
NamesUnique ==
    \A a, b \in BatchIds(st) : a # b => st.batches[a].name # st.batches[b].name

\* ------------------------------------------------------------------------
\* The refresh sweep
\* ------------------------------------------------------------------------
\* the batches whose row reads SYNCING
SyncingNow == {b \in BatchIds(st) : st.batches[b].status = BATCH_STATUS_SYNCING}

\* C38: a refresh sweep adds and removes nothing; a batch that is not
\* SYNCING keeps its row and its files keep their records; a SYNCING batch
\* either stays as it is, with its files, or becomes SYNCED with synced_at
\* stamped, nothing else in its row changed, its BATCHED files promoted to
\* SYNCED and its other files unchanged; files of no batch are unchanged
C38_RefreshFrame ==
    [][(/\ <<st'.batches, st'.frec, st'.dirs, st'.foreign>>
              # <<st.batches, st.frec, st.dirs, st.foreign>>
        /\ \E c \in [Syncing(st) -> Completions], ok \in BOOLEAN : Refresh(c, ok))
       => /\ Len(st'.batches) = Len(st.batches)
          /\ st'.dirs = st.dirs
          /\ st'.foreign = st.foreign
          /\ \A f \in FileIds :
               st.frec[f].batch_id \notin SyncingNow => st'.frec[f] = st.frec[f]
          /\ \A b \in BatchIds(st) \ SyncingNow : st'.batches[b] = st.batches[b]
          /\ \A b \in SyncingNow :
               LET mine == {f \in FileIds : st.frec[f].batch_id = b} IN
               \/ /\ st'.batches[b] = st.batches[b]
                  /\ \A f \in mine : st'.frec[f] = st.frec[f]
               \/ /\ st'.batches[b] =
                        [st.batches[b] EXCEPT !.status = BATCH_STATUS_SYNCED,
                                              !.synced_at = st'.batches[b].synced_at]
                  /\ st'.batches[b].synced_at > st.clock
                  /\ \A f \in mine :
                       st'.frec[f] =
                         IF st.frec[f].status = FILE_STATUS_BATCHED
                         THEN [st.frec[f] EXCEPT !.status = FILE_STATUS_SYNCED]
                         ELSE st.frec[f]]_vars

\* a batch that a poll has just moved to SYNCED with its file promoted,
\* while a file of no batch waits as it was
C38_Witness ==
    \E b \in BatchIds(st) :
        /\ st.batches[b].status = BATCH_STATUS_SYNCED
        /\ st.batches[b].synced_at = st.clock
        /\ \E f \in FileIds : /\ st.frec[f].batch_id = b
                              /\ st.frec[f].status = FILE_STATUS_SYNCED
        /\ \E g \in FileIds : /\ st.frec[g].batch_id = 0
                              /\ st.frec[g].status = FILE_STATUS_UNIQUE

\* ------------------------------------------------------------------------
\* Progress of the allocation
\* ------------------------------------------------------------------------
\* the files a create_batch with the byte budget should get to: UNIQUE,
\* unbatched, in the source tree and not larger than the budget
Eligible(s, budget) ==
    {f \in FileIds : /\ s.frec[f].status = FILE_STATUS_UNIQUE
                     /\ s.frec[f].batch_id = 0
                     /\ s.frec[f].at = "source"
                     /\ s.frec[f].exists
                     /\ Size(f) <= budget}

\* C39: whatever the byte budget, a pipeline run (dedup scan, then
\* create_batch) that finds no batch in a non-terminal status and at least
\* one eligible file creates a batch and assigns an eligible file to it, so
\* the eligible files get fewer with every run that is not blocked
C39_NoStarvation ==
    \A budget \in 1..MaxSizeBytes :
        LET s1 == process_files(st, discover_files(st), {})
            res == create_batch_with(s1, "size", budget, 0)
        IN (active_batch_guard(s1) = 0 /\ Eligible(s1, budget) # {})
           => /\ res.created
              /\ \E f \in Eligible(s1, budget) :
                    res.s.frec[f].status = FILE_STATUS_BATCHED

\* ------------------------------------------------------------------------
\* DatabaseManager: the migration statement by statement
\* ------------------------------------------------------------------------
NoTable == [exists |-> FALSE, has_id |-> FALSE, rows |-> {}]

\* CREATE TABLE batches (id INTEGER PRIMARY KEY AUTOINCREMENT, ...)
NewTable == [exists |-> TRUE, has_id |-> TRUE, rows |-> {}]

\* a database file with a legacy batches table and no process that has it
\* open; orig keeps the rows the file held at first
InitMigrate ==
    /\ st = InitStore(ForeignNames)
    /\ sel = NoSel
    /\ mgr = InitManager(FALSE, FALSE)
    /\ dd = InitDedup
    /\ cb = NoCalls
    /\ \E t \in LegacyTables :
         db = [batches |-> [exists |-> TRUE, has_id |-> FALSE, rows |-> t],
               batches_old |-> NoTable, pc |-> "closed", orig |-> t]

\* DatabaseManager(db_path): sqlite3.connect with isolation_level=None, every
\* statement is committed as it ends
MgConnect ==
    /\ db.pc = "closed"
    /\ db' = [db EXCEPT !.pc = "schema"]
    /\ UNCHANGED <<st, sel, mgr, dd, cb>>

\* SCHEMA_STATEMENTS: CREATE TABLE IF NOT EXISTS batches
MgSchema ==
    /\ db.pc = "schema"
    /\ db' = [db EXCEPT !.batches = IF @.exists THEN @ ELSE NewTable,
                        !.pc = "check"]
    /\ UNCHANGED <<st, sel, mgr, dd, cb>>

\* _ensure_batches_have_id: if "id" in columns: return
MgCheck ==
    /\ db.pc = "check"
    /\ db' = [db EXCEPT !.pc = IF db.batches.has_id THEN "open" ELSE "rename"]
    /\ UNCHANGED <<st, sel, mgr, dd, cb>>

\* ALTER TABLE batches RENAME TO batches_old
MgRename ==
    /\ db.pc = "rename"
    /\ db' = IF db.batches_old.exists
             THEN [db EXCEPT !.pc = "raised"]
             ELSE [db EXCEPT !.batches_old = db.batches, !.batches = NoTable,
                             !.pc = "create"]
    /\ UNCHANGED <<st, sel, mgr, dd, cb>>

\* CREATE TABLE batches (...)
MgCreate ==
    /\ db.pc = "create"
    /\ db' = [db EXCEPT !.batches = NewTable, !.pc = "copy"]
    /\ UNCHANGED <<st, sel, mgr, dd, cb>>

\* INSERT INTO batches (...) SELECT ... FROM batches_old ORDER BY rowid
MgCopy ==
    /\ db.pc = "copy"
    /\ db' = [db EXCEPT
                !.batches.rows =
                    ensure_batches_have_id([has_id |-> FALSE,
                                            rows |-> db.batches_old.rows]).rows,
                !.pc = "drop"]
    /\ UNCHANGED <<st, sel, mgr, dd, cb>>

\* DROP TABLE batches_old, and the constructor returns
MgDrop ==
    /\ db.pc = "drop"
    /\ db' = [db EXCEPT !.batches_old = NoTable, !.pc = "open"]
    /\ UNCHANGED <<st, sel, mgr, dd, cb>>

\* the process stops; the file keeps what the statements committed
MgStop ==
    /\ db.pc # "closed"
    /\ db' = [db EXCEPT !.pc = "closed"]
    /\ UNCHANGED <<st, sel, mgr, dd, cb>>

NextMigrate ==
    \/ MgConnect
    \/ MgSchema
    \/ MgCheck
    \/ MgRename
    \/ MgCreate
    \/ MgCopy
    \/ MgDrop
    \/ MgStop

SpecMigrate == InitMigrate /\ [][NextMigrate]_vars

\* C40: whenever the store is open, after any number of stops inside the
\* migration, every row of the original batches table is in the batches
\* table, with its name and status
C40_MigrationCrashSafe ==
    db.pc = "open" =>
        \A r \in db.orig :
            \E q \in db.batches.rows : q.name = r.name /\ q.status = r.status

\* no stop loses a row from the file: every original row is in batches or in
\* batches_old
RowsKeptInFile ==
    \A r \in db.orig :
        \E q \in db.batches.rows \cup db.batches_old.rows :
            q.name = r.name /\ q.status = r.status

====
